---- MODULE Spec2Model ----
(***************************************************************************)
(* Model of the multi-source bibliographic search of Aurora                *)
(* (libapp/services/meta_search_service.py): the result cache, the record  *)
(* normalizer and scorer, the three search strategies, the deduplicator /  *)
(* merger and the MetaSearchService facade.                                *)
(*                                                                         *)
(* Conventions.  A Python str is a sequence of one-character strings.      *)
(* None and "" are both the empty sequence (the code only tests such       *)
(* fields for truthiness).  Scores are kept in tenths of a point           *)
(* (66.5 -> 665), confidences in hundredths (0.95 -> 95) and response      *)
(* times in tenths of a second, so that every float of the code is an      *)
(* integer of the model.                                                   *)
(***************************************************************************)
EXTENDS Integers, Sequences, FiniteSets, TLC

\* ------------------------------------------------------------------------
\* Strings
\* ------------------------------------------------------------------------

\* str.lower() on one character
LowerChar(c) ==
    CASE c = "A" -> "a"
      [] c = "B" -> "b"
      [] c = "X" -> "x"
      [] c = "Y" -> "y"
      [] OTHER -> c

\* c.isspace()
IsSpace(c) == c = " "

\* the characters the regex [^\w\s] matches: neither word character nor space
IsPunct(c) == c \in {":", "-", "!", ".", ","}

\* str.lower()
Lower(s) == [i \in 1..Len(s) |-> LowerChar(s[i])]

RECURSIVE LStrip(_)
\* str.lstrip()
LStrip(s) == IF s # <<>> /\ IsSpace(Head(s)) THEN LStrip(Tail(s)) ELSE s

RECURSIVE RStrip(_)
\* str.rstrip()
RStrip(s) ==
    IF s # <<>> /\ IsSpace(s[Len(s)]) THEN RStrip(SubSeq(s, 1, Len(s) - 1)) ELSE s

\* str.strip()
Strip(s) == RStrip(LStrip(s))

\* str.replace(c, ""): every occurrence of the character removed
Remove(s, c) == SelectSeq(s, LAMBDA x : x # c)

RECURSIVE CollapseSpaces(_)
\* re.sub(r"\s+", " ", s): every run of whitespace becomes one space
CollapseSpaces(s) ==
    IF s = <<>> THEN <<>>
    ELSE IF IsSpace(Head(s))
         THEN <<" ">> \o CollapseSpaces(LStrip(s))
         ELSE <<Head(s)>> \o CollapseSpaces(Tail(s))

RECURSIVE SplitWords(_, _)
\* str.split(): the maximal runs of non-space characters; cur is the word
\* being read
SplitWords(s, cur) ==
    IF s = <<>> THEN (IF cur = <<>> THEN <<>> ELSE <<cur>>)
    ELSE IF IsSpace(Head(s))
         THEN (IF cur = <<>> THEN <<>> ELSE <<cur>>) \o SplitWords(Tail(s), <<>>)
         ELSE SplitWords(Tail(s), Append(cur, Head(s)))

RECURSIVE JoinWords(_)
\* " ".join(words)
JoinWords(ws) ==
    IF ws = <<>> THEN <<>>
    ELSE IF Len(ws) = 1 THEN ws[1]
    ELSE ws[1] \o <<" ">> \o JoinWords(Tail(ws))

\* ------------------------------------------------------------------------
\* UnifiedBookResult and its quality score
\* ------------------------------------------------------------------------

SourceNames == {"BnF", "Google Books", "OpenLibrary"}

\* source_scores.get(name, 0.5) * 30, in tenths
SourceBase(name) ==
    CASE name = "BnF" -> 300
      [] name = "Google Books" -> 240
      [] name = "OpenLibrary" -> 180
      [] OTHER -> 150

\* the latency above which a result is penalised, in tenths of a second
SlowResponse == 50

Min2(a, b) == IF a < b THEN a ELSE b
Max2(a, b) == IF a > b THEN a ELSE b

\* a score that takes the penalty from a response time of 5.0 seconds on
ScoreSlowFromFive(r) ==
    LET base == SourceBase(r.src)
        bonus == 100
                 + (IF r.authors # <<>> THEN 80 ELSE 0)
                 + (IF r.main_author # <<>> THEN 50 ELSE 0)
                 + (IF r.isbn # <<>> THEN 80 ELSE 0)
                 + (IF r.year # <<>> THEN 50 ELSE 0)
                 + (IF r.publisher # <<>> THEN 40 ELSE 0)
                 + (IF r.description # <<>> THEN 60 ELSE 0)
                 + (IF r.summary # <<>> THEN 40 ELSE 0)
                 + (IF r.thumbnail_url # <<>> THEN 30 ELSE 0)
        penalty == IF r.rt >= SlowResponse THEN 50 ELSE 0
    IN  Min2(1000, Max2(0, base + bonus - penalty + r.conf))

\* UnifiedBookResult._calculate_quality_score, in tenths of a point
calculate_quality_score(r) ==
    LET base == SourceBase(r.src)
        bonus == 100
                 + (IF r.authors # <<>> THEN 80 ELSE 0)
                 + (IF r.main_author # <<>> THEN 50 ELSE 0)
                 + (IF r.isbn # <<>> THEN 80 ELSE 0)
                 + (IF r.year # <<>> THEN 50 ELSE 0)
                 + (IF r.publisher # <<>> THEN 40 ELSE 0)
                 + (IF r.description # <<>> THEN 60 ELSE 0)
                 + (IF r.summary # <<>> THEN 40 ELSE 0)
                 + (IF r.thumbnail_url # <<>> THEN 30 ELSE 0)
        penalty == IF r.rt > SlowResponse THEN 50 ELSE 0
    IN  Min2(1000, Max2(0, base + bonus - penalty + r.conf))

\* UnifiedBookResult(...): the dataclass constructor followed by
\* __post_init__, which stores the score
UnifiedBookResult(f) == [f EXCEPT !.score = calculate_quality_score(f)]

\* the fields of a result before its score is computed
Blank(title, src, conf, rt) ==
    [title |-> title, src |-> src, conf |-> conf, rt |-> rt,
     subtitle |-> <<>>, authors |-> <<>>, main_author |-> <<>>,
     isbn |-> <<>>, year |-> <<>>, publisher |-> <<>>, collection |-> <<>>,
     description |-> <<>>, summary |-> <<>>, thumbnail_url |-> <<>>,
     cover_image_url |-> <<>>, score |-> 0]

\* ------------------------------------------------------------------------
\* Raw records and SearchResultAdapter
\* ------------------------------------------------------------------------

\* A raw record of a source.  shape tells what the adapter handed over:
\* "BnfBook", "ExtBook", "dict" (a Google Books volume) or "BookDTO".
\* keys is, for a dict, the set of volumeInfo keys that are present among
\* "title" and "authors"; ids is its industryIdentifiers list.
Raw(shape, titre, auteurs) ==
    [shape |-> shape, titre |-> titre, sous_titre |-> <<>>, auteurs |-> auteurs,
     isbn |-> <<>>, editeur |-> <<>>, date |-> <<>>, collection |-> <<>>,
     description |-> <<>>, thumbnail |-> <<>>,
     keys |-> {"title", "authors"}, ids |-> <<>>]

RECURSIVE TakeUntil(_, _)
\* s.split(c)[0]
TakeUntil(s, c) ==
    IF s = <<>> \/ Head(s) = c THEN <<>> ELSE <<Head(s)>> \o TakeUntil(Tail(s), c)

\* the value of a conversion that raised
Raised == [ok |-> FALSE]
Value(v) == [ok |-> TRUE, val |-> v]

\* SearchSourceInfo(name, confidence, response_time, success=True)
SearchSourceInfo(name, conf, rt) == [name |-> name, conf |-> conf, rt |-> rt]

\* SearchResultAdapter.from_bnf_book: reading .titre of anything but a book
\* object raises AttributeError
from_bnf_book(b, si) ==
    IF b.shape \notin {"BnfBook", "ExtBook"} THEN Raised
    ELSE Value(UnifiedBookResult(
        [Blank(b.titre, si.name, si.conf, si.rt) EXCEPT
            !.subtitle = b.sous_titre,
            !.authors = b.auteurs,
            !.main_author = IF b.auteurs # <<>> THEN b.auteurs[1] ELSE <<>>,
            !.isbn = b.isbn,
            !.year = b.date,
            !.publisher = b.editeur,
            !.collection = b.collection]))

\* SearchResultAdapter.from_ext_book
from_ext_book(b, si) ==
    IF b.shape \notin {"BnfBook", "ExtBook"} THEN Raised
    ELSE Value(UnifiedBookResult(
        [Blank(b.titre, si.name, si.conf, si.rt) EXCEPT
            !.subtitle = b.sous_titre,
            !.authors = b.auteurs,
            !.main_author = IF b.auteurs # <<>> THEN b.auteurs[1] ELSE <<>>,
            !.isbn = b.isbn,
            !.year = IF b.date # <<>> THEN b.date ELSE <<>>,
            !.publisher = b.editeur,
            !.collection = b.collection]))

\* the title an absent "title" key defaults to ("Titre inconnu")
TitreInconnu == <<"?">>

RECURSIVE FirstIsbn(_)
\* the identifier of the first industryIdentifiers entry of type ISBN_13 or
\* ISBN_10
FirstIsbn(ids) ==
    IF ids = <<>> THEN <<>>
    ELSE IF Head(ids).type \in {"ISBN_13", "ISBN_10"} THEN Head(ids).identifier
    ELSE FirstIsbn(Tail(ids))

\* SearchResultAdapter.from_google_books: .get on anything but a dict raises
\* AttributeError, and [0] of an "authors" key holding an empty list raises
\* IndexError
from_google_books(g, si) ==
    IF g.shape # "dict" THEN Raised
    ELSE IF "authors" \in g.keys /\ g.auteurs = <<>> THEN Raised
    ELSE Value(UnifiedBookResult(
        [Blank(IF "title" \in g.keys THEN g.titre ELSE TitreInconnu,
               si.name, si.conf, si.rt) EXCEPT
            !.subtitle = g.sous_titre,
            !.authors = IF "authors" \in g.keys THEN g.auteurs ELSE <<>>,
            !.main_author = IF "authors" \in g.keys THEN g.auteurs[1] ELSE <<>>,
            !.isbn = FirstIsbn(g.ids),
            !.year = IF g.date # <<>> THEN TakeUntil(g.date, "-") ELSE <<>>,
            !.publisher = g.editeur,
            !.description = g.description,
            !.thumbnail_url = g.thumbnail]))

\* the attributes of the objects the adapters hand over: the fields of the
\* dataclasses BookDTO, BnfBook and ExtBook; a dict has none of them
Attributes(shape) ==
    CASE shape = "BookDTO" ->
            {"id", "isbn", "title", "author", "publisher", "year", "category",
             "copies_total", "copies_available"}
      [] shape \in {"BnfBook", "ExtBook"} ->
            {"titre", "sous_titre", "auteurs", "isbn", "editeur",
             "date_publication", "collection"}
      [] OTHER -> {}

\* the attributes _search_single_source reads of the object the Google
\* Books adapter returned by ISBN
DtoReads == {"title", "authors_text", "publisher", "year", "isbn", "description"}

\* the dict _search_single_source builds from that object before it calls
\* from_google_books: the authors text as a one-element list, the isbn under
\* the identifier type "ISBN", no subtitle and no thumbnail.  Reading an
\* attribute the object lacks raises AttributeError, and a BookDTO has
\* neither authors_text nor description.
google_data(d) ==
    IF ~(DtoReads \subseteq Attributes(d.shape)) THEN Raised
    ELSE Value(
        [Raw("dict", d.titre, IF d.auteurs # <<>> THEN <<d.auteurs[1]>> ELSE <<>>)
            EXCEPT !.editeur = d.editeur,
                   !.date = d.date,
                   !.ids = IF d.isbn # <<>>
                           THEN <<[type |-> "ISBN", identifier |-> d.isbn]>>
                           ELSE <<>>,
                   !.description = d.description])

\* ------------------------------------------------------------------------
\* What a source adapter call does
\* ------------------------------------------------------------------------

\* The outcome of one adapter call: it raises, returns None, an empty list,
\* one record object, or a non-empty list of records; rt is the time it took.
Outcome(kind, recs, rt) == [kind |-> kind, recs |-> recs, rt |-> rt]

\* what a source block of a strategy leaves: the results it appended and
\* whether it ended in an exception
Block(items, raised) == [items |-> items, raised |-> raised]

RECURSIVE OkPrefix(_)
\* the values converted before the first conversion that raised
OkPrefix(vals) ==
    IF vals = <<>> \/ ~Head(vals).ok THEN <<>>
    ELSE <<Head(vals).val>> \o OkPrefix(Tail(vals))

\* for x in <outcome>: results.append(Conv(x, si)).  Iterating None or a
\* single record object raises TypeError; a conversion that raises ends the
\* loop with the results appended so far.
ForEach(out, Conv(_, _), si) ==
    IF out.kind \in {"raise", "none", "one"} THEN Block(<<>>, TRUE)
    ELSE LET vals == [i \in 1..Len(out.recs) |-> Conv(out.recs[i], si)]
         IN  Block(OkPrefix(vals), \E i \in 1..Len(vals) : ~vals[i].ok)

\* x = <outcome>; if x: results.append(Conv(x, si)).  None and [] are falsy;
\* a non-empty list is converted as if it were a record, which raises.
IfOne(out, Conv(_, _), si) ==
    IF out.kind = "raise" THEN Block(<<>>, TRUE)
    ELSE IF out.kind \in {"none", "empty"} THEN Block(<<>>, FALSE)
    ELSE IF out.kind = "list" THEN Block(<<>>, TRUE)
    ELSE LET v == Conv(out.recs[1], si)
         IN  IF v.ok THEN Block(<<v.val>>, FALSE) ELSE Block(<<>>, TRUE)

\* the conversion of the object the Google Books adapter returned by ISBN
\* in _search_single_source: the dict is built, then converted
from_book_dto(d, si) ==
    IF ~google_data(d).ok THEN Raised
    ELSE from_google_books(google_data(d).val, si)

\* the body of the try block of SequentialSearchStrategy.search_by_isbn for
\* one source
SeqIsbnBlock(source, out) ==
    CASE source = "BnF" ->
            ForEach(out, from_bnf_book, SearchSourceInfo(source, 95, out.rt))
      [] source = "OpenLibrary" ->
            IfOne(out, from_ext_book, SearchSourceInfo(source, 75, out.rt))
      [] source = "Google Books" ->
            ForEach(out, from_google_books, SearchSourceInfo(source, 85, out.rt))

\* the body of the try block of
\* SequentialSearchStrategy.search_by_title_author for one source
SeqTitleBlock(source, out) ==
    CASE source = "BnF" ->
            ForEach(out, from_bnf_book, SearchSourceInfo(source, 90, out.rt))
      [] source = "OpenLibrary" ->
            ForEach(out, from_ext_book, SearchSourceInfo(source, 70, out.rt))
      [] source = "Google Books" ->
            ForEach(out, from_google_books, SearchSourceInfo(source, 80, out.rt))

\* the try block of ParallelSearchStrategy._search_single_source
SingleSourceBlock(source, method, out) ==
    CASE method = "search_by_isbn" /\ source = "BnF" ->
            ForEach(out, from_bnf_book, SearchSourceInfo(source, 95, out.rt))
      [] method = "search_by_isbn" /\ source = "OpenLibrary" ->
            IfOne(out, from_ext_book, SearchSourceInfo(source, 75, out.rt))
      [] method = "search_by_isbn" /\ source = "Google Books" ->
            IfOne(out, from_book_dto, SearchSourceInfo(source, 80, out.rt))
      [] method = "search_by_title_author" /\ source = "BnF" ->
            ForEach(out, from_bnf_book, SearchSourceInfo(source, 90, out.rt))
      [] method = "search_by_title_author" /\ source = "OpenLibrary" ->
            ForEach(out, from_ext_book, SearchSourceInfo(source, 65, out.rt))
      [] method = "search_by_title_author" /\ source = "Google Books" ->
            ForEach(out, from_google_books, SearchSourceInfo(source, 80, out.rt))
      [] method = "search_by_title" /\ source = "BnF" ->
            ForEach(out, from_bnf_book, SearchSourceInfo(source, 85, out.rt))
      [] method = "search_by_title" /\ source = "OpenLibrary" ->
            ForEach(out, from_ext_book, SearchSourceInfo(source, 70, out.rt))
      [] method = "search_by_title" /\ source = "Google Books" ->
            ForEach(out, from_google_books, SearchSourceInfo(source, 75, out.rt))

\* ParallelSearchStrategy._search_single_source: the exception is caught and
\* the results appended before it are returned
search_single_source(source, method, out) ==
    SingleSourceBlock(source, method, out).items

\* the search order of SequentialSearchStrategy.search_by_isbn
SeqIsbnOrder == <<"BnF", "Google Books", "OpenLibrary">>

\* the search order of SequentialSearchStrategy.search_by_title_author
SeqTitleOrder == <<"BnF", "OpenLibrary", "Google Books">>

\* what a sequential search leaves: its results, the sources it called and
\* whether an exception left it
SeqState(results, called, raised) ==
    [results |-> results, called |-> called, raised |-> raised]

\* a for loop without the except clause
SeqNoCatch(st) == st

\* the except clause of the for loop of SequentialSearchStrategy: the
\* exception of a source block is swallowed and the loop continues
SeqCatch(st) == [st EXCEPT !.raised = FALSE]

RECURSIVE SeqLoop(_, _, _, _)
\* the for loop of SequentialSearchStrategy over the sources of order from
\* position i on: outs[s] is what the adapter of source s answers, kind is
\* "isbn" or "title"
SeqLoop(kind, outs, i, st) ==
    LET order == IF kind = "isbn" THEN SeqIsbnOrder ELSE SeqTitleOrder IN
    IF i > Len(order) \/ st.raised THEN st
    ELSE LET s == order[i]
             b == IF kind = "isbn" THEN SeqIsbnBlock(s, outs[s])
                                   ELSE SeqTitleBlock(s, outs[s])
             after == SeqCatch(SeqState(st.results \o b.items,
                                        Append(st.called, s), b.raised))
         IN  IF ~b.raised /\ after.results # <<>> THEN after
             ELSE SeqLoop(kind, outs, i + 1, after)

\* SequentialSearchStrategy.search_by_isbn / search_by_title_author
SequentialSearch(kind, outs) == SeqLoop(kind, outs, 1, SeqState(<<>>, <<>>, FALSE))

\* ------------------------------------------------------------------------
\* BestResultStrategy: deduplication and merge
\* ------------------------------------------------------------------------

\* the title part of the key: lower().strip(), punctuation removed, runs of
\* whitespace collapsed
NormTitle(title) ==
    CollapseSpaces(SelectSeq(Strip(Lower(title)), LAMBDA c : ~IsPunct(c)))

\* the author part of the key: lower().strip(), and the last word moved to
\* the front when there are several words
NormAuthor(author) ==
    LET a == Strip(Lower(author))
        parts == SplitWords(a, <<>>)
    IN  IF a # <<>> /\ Len(parts) > 1
        THEN parts[Len(parts)] \o <<" ">> \o JoinWords(SubSeq(parts, 1, Len(parts) - 1))
        ELSE a

\* BestResultStrategy._normalize_for_deduplication
normalize_for_deduplication(title, author) ==
    NormTitle(title) \o <<"|">> \o NormAuthor(author)

\* the deduplication key of a result
KeyOf(r) == normalize_for_deduplication(r.title, r.main_author)

RECURSIVE AppendNew(_, _)
\* for author in result.authors: if author not in merged.authors: append
AppendNew(mine, theirs) ==
    IF theirs = <<>> THEN mine
    ELSE AppendNew(
            IF \E i \in 1..Len(mine) : mine[i] = Head(theirs)
            THEN mine ELSE Append(mine, Head(theirs)),
            Tail(theirs))

\* a merge that completes nothing
NoFill(mine, theirs) == mine

\* the fields _merge_results completes on the representative
Fill(mine, theirs) == IF mine = <<>> /\ theirs # <<>> THEN theirs ELSE mine

\* one turn of the loop of _merge_results: the member that equals the
\* representative is skipped, any other completes its empty fields
MergeOne(merged, result) ==
    IF result = merged THEN merged
    ELSE [merged EXCEPT
            !.subtitle = Fill(merged.subtitle, result.subtitle),
            !.description = Fill(merged.description, result.description),
            !.summary = Fill(merged.summary, result.summary),
            !.thumbnail_url = Fill(merged.thumbnail_url, result.thumbnail_url),
            !.cover_image_url = Fill(merged.cover_image_url, result.cover_image_url),
            !.publisher = Fill(merged.publisher, result.publisher),
            !.collection = Fill(merged.collection, result.collection),
            !.authors = AppendNew(merged.authors, result.authors)]

RECURSIVE MergeLoop(_, _)
MergeLoop(merged, group) ==
    IF group = <<>> THEN merged
    ELSE MergeLoop(MergeOne(merged, Head(group)), Tail(group))

\* BestResultStrategy._merge_results: the representative completed from the
\* members of its group, its score computed again at the end
Rescored(merged) == [merged EXCEPT !.score = calculate_quality_score(merged)]
merge_results(group_results, best) == Rescored(MergeLoop(best, group_results))

\* a representative that is the first member of its group
FirstOf(rs, ps) == ps[1]

\* a representative that is the last of the members of the highest score
LastBestOf(rs, ps) ==
    LET top(i) == \A j \in 1..Len(ps) : rs[ps[j]].score <= rs[ps[i]].score
        i == CHOOSE i \in 1..Len(ps) : top(i) /\ \A j \in (i + 1)..Len(ps) : ~top(j)
    IN  ps[i]

\* max(group_results, key=score) over the positions ps of rs: the first
\* position whose score no other position exceeds
BestOf(rs, ps) ==
    LET top(i) == \A j \in 1..Len(ps) : rs[ps[j]].score <= rs[ps[i]].score
        i == CHOOSE i \in 1..Len(ps) : top(i) /\ \A j \in 1..(i - 1) : ~top(j)
    IN  ps[i]

\* the deduplication keys of the results rs, by position
KeysOf(rs) == [i \in 1..Len(rs) |-> KeyOf(rs[i])]

\* every position opens a group
AllHeads(keys) == [i \in 1..Len(keys) |-> i]

\* the positions that open a group: the first of each key, in order
GroupHeads(keys) ==
    SelectSeq([i \in 1..Len(keys) |-> i],
              LAMBDA i : \A j \in 1..(i - 1) : keys[j] # keys[i])

\* the positions of the group of key k, in order
GroupOf(keys, k) == SelectSeq([i \in 1..Len(keys) |-> i], LAMBDA i : keys[i] = k)

\* the dict groups of _deduplicate_results: the groups in the order their
\* keys were first seen, each the positions of its members
GroupsBy(keys, heads) == [g \in 1..Len(heads) |-> GroupOf(keys, keys[heads[g]])]
Groups(rs) == GroupsBy(KeysOf(rs), GroupHeads(KeysOf(rs)))

\* the members of a group, as the results they are
Members(rs, group) == [n \in 1..Len(group) |-> rs[group[n]]]

\* the results after the merge of each group into its representative,
\* reps[g] being the position of the representative of groups[g]
MergeGroups(rs, groups, reps) ==
    [reps |-> reps,
     recs |-> [i \in 1..Len(rs) |->
                 IF \E g \in 1..Len(reps) : reps[g] = i
                 THEN merge_results(
                        Members(rs, groups[CHOOSE g \in 1..Len(reps) : reps[g] = i]),
                        rs[i])
                 ELSE rs[i]]]

\* the loop of _deduplicate_results over the groups
DedupGroups(rs, groups) ==
    MergeGroups(rs, groups, [g \in 1..Len(groups) |-> BestOf(rs, groups[g])])

\* BestResultStrategy._deduplicate_results on the results rs: reps are the
\* positions of the representatives, one per group in the order the groups
\* were opened, and recs are the results after the merge, which changes the
\* representatives in place
deduplicate_results(rs) == DedupGroups(rs, Groups(rs))

RECURSIVE InsertByScore(_, _, _)
\* x put into the sequence of positions ps, sorted by score descending,
\* behind every position of at least its score
InsertByScore(score, ps, x) ==
    IF ps = <<>> THEN <<x>>
    ELSE IF score[Head(ps)] >= score[x] THEN <<Head(ps)>> \o InsertByScore(score, Tail(ps), x)
    ELSE <<x>> \o ps

RECURSIVE SortByScore(_, _)
\* results.sort(key=lambda r: r.score, reverse=True): a stable sort, equal
\* scores keep their order
SortByScore(score, ps) ==
    IF ps = <<>> THEN <<>>
    ELSE InsertByScore(score, SortByScore(score, SubSeq(ps, 1, Len(ps) - 1)), ps[Len(ps)])

\* ------------------------------------------------------------------------
\* The heap: result objects and the lists that hold them
\* ------------------------------------------------------------------------
\* A result is an object the merge changes in place, and a list is an object
\* the facade sorts in place; both are shared between the caches.  A heap is
\* [objs: the results by address, lists: the lists by address, each a sequence
\* of result addresses].

EmptyHeap == [objs |-> <<>>, lists |-> <<>>]

\* a new list holding new objects of the values recs; its address is
\* Len(lists) of the heap returned
AllocResults(h, recs) ==
    [objs |-> h.objs \o recs,
     lists |-> Append(h.lists, [i \in 1..Len(recs) |-> Len(h.objs) + i])]

\* a new list of the existing objects at the addresses os
AllocList(h, os) == [h EXCEPT !.lists = Append(h.lists, os)]

\* the values of the results of the list at address l
Contents(h, l) == [i \in 1..Len(h.lists[l]) |-> h.objs[h.lists[l][i]]]

\* results.sort(key=lambda r: r.score, reverse=True) on the list at l
SortList(h, l) ==
    [h EXCEPT !.lists[l] =
        SortByScore([o \in 1..Len(h.objs) |-> h.objs[o].score], h.lists[l])]

\* BestResultStrategy._deduplicate_results on the list at address l: an
\* empty list is returned as it is; otherwise the representatives are merged
\* in place and a new list holds them.  The list returned is the last of the
\* heap when new is TRUE, and l otherwise.
DedupInto(h, os, d) ==
    AllocList([h EXCEPT !.objs =
                  [o \in 1..Len(h.objs) |->
                     IF \E i \in 1..Len(os) : os[i] = o
                     THEN d.recs[CHOOSE i \in 1..Len(os) : os[i] = o]
                     ELSE h.objs[o]]],
              [g \in 1..Len(d.reps) |-> os[d.reps[g]]])
DedupList(h, l) ==
    IF h.lists[l] = <<>> THEN [heap |-> h, new |-> FALSE]
    ELSE [heap |-> DedupInto(h, h.lists[l], deduplicate_results(Contents(h, l))),
          new |-> TRUE]

\* ------------------------------------------------------------------------
\* SimpleCache (the module-level _global_cache) and the facade's dicts
\* ------------------------------------------------------------------------

\* CacheEntry.ttl_hours
TtlHours == 24

\* an entry that expires one hour early
ExpiredAtTtl(entry, now_) == now_ >= entry.created_at + TtlHours

\* CacheEntry.is_expired at the time now, in hours
is_expired(entry, now_) == now_ > entry.created_at + TtlHours

\* d[key] = value on a dict
DictSet(d, key, value) ==
    [k \in DOMAIN d \cup {key} |-> IF k = key THEN value ELSE d[k]]

\* del d[key]
DictDel(d, key) == [k \in DOMAIN d \ {key} |-> d[k]]

\* the dict {}
EmptyDict == [k \in {} |-> 0]

\* SimpleCache.get: hit is whether data are returned, data is the address
\* of the list returned, and cache is the cache afterwards (an expired entry
\* is deleted)
CacheGet(cache, key, now_) ==
    IF key \in DOMAIN cache /\ ~is_expired(cache[key], now_)
    THEN [hit |-> TRUE, data |-> cache[key].data, cache |-> cache]
    ELSE IF key \in DOMAIN cache
    THEN [hit |-> FALSE, data |-> 0, cache |-> DictDel(cache, key)]
    ELSE [hit |-> FALSE, data |-> 0, cache |-> cache]

\* SimpleCache.set
CacheSet(cache, key, data, now_) ==
    DictSet(cache, key, [data |-> data, created_at |-> now_])

\* the addresses a dict of list addresses refers to
Refs(d) == {d[k] : k \in DOMAIN d}

\* the lists the caches refer to, and the results these lists hold
LiveLists(ic, tc, gc) == Refs(ic) \cup Refs(tc) \cup {gc[k].data : k \in DOMAIN gc}
LiveObjs(h, liveL) ==
    UNION {{h.lists[l][i] : i \in 1..Len(h.lists[l])} : l \in liveL}

\* the rank of each address of the set S, and the address of each rank
RankOf(S) == [x \in S |-> Cardinality({y \in S : y <= x})]
AtRank(S) == [n \in 1..Cardinality(S) |-> CHOOSE x \in S : Cardinality({y \in S : y <= x}) = n]

\* the caches and the heap with every address replaced by its rank
Renumber(ic, tc, gc, h, rankL, rankO, atL, atO) ==
    [ic |-> [k \in DOMAIN ic |-> rankL[ic[k]]],
     tc |-> [k \in DOMAIN tc |-> rankL[tc[k]]],
     gc |-> [k \in DOMAIN gc |-> [gc[k] EXCEPT !.data = rankL[gc[k].data]]],
     heap |-> [objs |-> [n \in 1..Len(atO) |-> h.objs[atO[n]]],
               lists |-> [n \in 1..Len(atL) |->
                            [i \in 1..Len(h.lists[atL[n]]) |->
                                rankO[h.lists[atL[n]][i]]]]]]
CompactLive(ic, tc, gc, h, liveL, liveO) ==
    Renumber(ic, tc, gc, h, RankOf(liveL), RankOf(liveO), AtRank(liveL), AtRank(liveO))
CompactLists(ic, tc, gc, h, liveL) ==
    CompactLive(ic, tc, gc, h, liveL, LiveObjs(h, liveL))

\* Unreferenced lists and results are dropped and the remaining ones keep
\* their order: addresses are not observable, so the heap is kept in this
\* canonical form.  ic and tc are the facade's dicts, gc the global cache.
Compact(ic, tc, gc, h) == CompactLists(ic, tc, gc, h, LiveLists(ic, tc, gc))

\* ------------------------------------------------------------------------
\* The answers of the source adapters
\* ------------------------------------------------------------------------

AuthorAB == <<"A", " ", "B">>

BnfY == [Raw("BnfBook", <<"Y">>, <<AuthorAB>>) EXCEPT !.isbn = <<"1">>]
BnfX == [Raw("BnfBook", <<"X">>, <<AuthorAB>>) EXCEPT !.date = <<"2", "0">>]
BnfP == [Raw("BnfBook", <<"X">>, <<AuthorAB>>) EXCEPT !.editeur = <<"P">>]
ExtX == [Raw("ExtBook", <<"x", "!">>, <<<<"a", " ", "B">>>>) EXCEPT
            !.isbn = <<"1">>, !.editeur = <<"Q">>, !.sous_titre = <<"s">>,
            !.collection = <<"c">>]
DtoX == [Raw("BookDTO", <<"X">>, <<AuthorAB>>) EXCEPT !.isbn = <<"1">>]
DictX == [Raw("dict", <<"X">>, <<AuthorAB>>) EXCEPT
            !.ids = <<[type |-> "ISBN_13", identifier |-> <<"1">>]>>,
            !.thumbnail = <<"t">>]
DictNoAuthors == Raw("dict", <<"Z">>, <<>>)

\* what an adapter may answer to the call of method: it raises, returns
\* None, returns an empty list, or returns records.  BnfService,
\* GoogleBooksService and OpenLibraryService return the single record of a
\* lookup by ISBN (a BnfBook, a BookDTO, an ExtBook) and a list of records
\* otherwise; the strategies call whatever services they are handed, so a
\* list is among the answers to a lookup by ISBN too.
Answers(source, method) ==
    {Outcome("raise", <<>>, 1), Outcome("none", <<>>, 1), Outcome("empty", <<>>, 1)}
    \cup
    CASE source = "BnF" /\ method = "search_by_isbn" ->
            {Outcome("one", <<BnfY>>, 1), Outcome("list", <<BnfY, BnfX>>, 1)}
      [] source = "BnF" ->
            {Outcome("list", <<BnfP>>, 1)}
      [] source = "OpenLibrary" /\ method = "search_by_isbn" ->
            {Outcome("one", <<ExtX>>, 1)}
      [] source = "OpenLibrary" ->
            {Outcome("list", <<ExtX>>, 1)}
      [] source = "Google Books" /\ method = "search_by_isbn" ->
            {Outcome("one", <<DtoX>>, 1), Outcome("list", <<DictX>>, 1),
             Outcome("list", <<DictX, DictNoAuthors>>, 1)}
      [] source = "Google Books" ->
            {Outcome("list", <<DictX, DictNoAuthors>>, 1)}

\* an adapter's answer as the caller sees it: records, or nothing (an
\* exception, None or an empty list)
Answered(out) == IF out.kind \in {"one", "list"} THEN "records" ELSE "nothing"

\* the adapter method a task of the parallel strategy calls
TaskMethod(kind, source) ==
    IF kind = "isbn" THEN "search_by_isbn"
    ELSE IF source = "OpenLibrary" THEN "search_by_title"
    ELSE "search_by_title_author"

\* the adapter method the sequential strategy calls
SeqMethod(kind, source) == TaskMethod(kind, source)

\* the adapters' answers to one search, by source
Outs(ob, og, oo) ==
    [s \in SourceNames |->
        IF s = "BnF" THEN ob ELSE IF s = "Google Books" THEN og ELSE oo]
AllOuts(kind) ==
    {Outs(ob, og, oo) :
        ob \in Answers("BnF", SeqMethod(kind, "BnF")),
        og \in Answers("Google Books", SeqMethod(kind, "Google Books")),
        oo \in Answers("OpenLibrary", SeqMethod(kind, "OpenLibrary"))}

\* whether the sequential search that left st called the source s
WasCalled(st, s) == \E i \in 1..Len(st.called) : st.called[i] = s

\* a sequential search as its caller sees it: the results, whether an
\* exception left it, what each source called answered, and the sources
\* whose adapter raised
SeqRun(outs, st) ==
    [results |-> st.results, raised |-> st.raised,
     called |-> [s \in SourceNames |->
                   IF WasCalled(st, s) THEN Answered(outs[s]) ELSE "no"],
     raising |-> {s \in SourceNames : WasCalled(st, s) /\ outs[s].kind = "raise"}]

\* the sequential searches by ISBN and by title, over the adapters' answers
SeqRunsOf(kind) == {SeqRun(outs, SequentialSearch(kind, outs)) : outs \in AllOuts(kind)}
SeqIsbnRuns == SeqRunsOf("isbn")
SeqTitleRuns == SeqRunsOf("title")

\* a task of the parallel strategy as the pool sees it: the results it
\* returns, what the adapter answered and whether it raised
TaskRun(source, method, out) ==
    [items |-> search_single_source(source, method, out),
     answered |-> Answered(out), raising |-> out.kind = "raise"]

\* the tasks of each source and method, over the adapter's answers
Methods == {"search_by_isbn", "search_by_title_author", "search_by_title"}
TaskRuns ==
    [s \in SourceNames |->
        [m \in Methods |-> {TaskRun(s, m, out) : out \in Answers(s, m)}]]

\* ------------------------------------------------------------------------
\* The state
\* ------------------------------------------------------------------------

VARIABLES
    strategy,     \* MetaSearchService.strategy: "sequential", "parallel", "best"
    isbn_cache,   \* MetaSearchService._isbn_cache: key -> list address
    title_cache,  \* MetaSearchService._title_cache: key -> list address
    global_cache, \* _global_cache._cache: key -> [data, created_at]
    heap,         \* the result objects and lists the caches refer to
    now,          \* datetime.now(), in hours
    pc,           \* where the caller is: "idle", in a call at "waiting" or
                  \* "shutdown", or back from it at "returned"
    op,           \* the facade call in progress, or the last one
    tstate,       \* per source, its task: "idle", "running", "finished"
    tres,         \* per source, what its finished task returned
    order,        \* the sources of the done set, in the order it is iterated
    doneAtWait,   \* the sources whose task had finished when wait() returned
    called,       \* per source, whether its adapter was called in this call
                  \* and answered with records or with nothing, or "late":
                  \* after wait() had returned
    raising,      \* the sources whose adapter raised an exception in this call
    sret,         \* what the parallel strategy returned to its caller
    ret,          \* what the facade call returned
    seen,         \* ISBN key -> time of the last use_cache search for it
    failed,       \* the cache keys of the parallel strategy whose last run
                  \* lacked a source: its adapter raised, or its task had
                  \* not finished when wait() returned
    answers,      \* where the adapters' answers are fixed beforehand: per
                  \* source, what its adapter answers
    limits,       \* how many searches a behaviour makes
    copies,       \* Book.copies_available, by book id
    loans,        \* the rows of the table loans, by loan id
    members,      \* Member.member_no and Member.is_active, by member id
    lret,         \* what the last call of the loan service returned
    asked,        \* <<kind, key>> of an entry of the facade's dicts -> the
                  \* search whose results it holds: its title and author,
                  \* stripped and lowercased, and the strategy that ran
    threads       \* per thread that calls the cache, where it is in its
                  \* call and the entry it has read

\* the variables of the search service, of its bounds, and of the loans
searchVars == <<strategy, isbn_cache, title_cache, global_cache, heap, now, pc, op,
                tstate, tres, order, doneAtWait, called, raising, sret, ret, seen,
                failed, asked>>
fixedVars == <<answers, limits>>
loanVars == <<copies, loans, members, lret>>
threadVars == <<threads>>

vars == <<searchVars, fixedVars, loanVars, threadVars>>

\* the number of searches with a non-blank argument a behaviour makes
MaxSearches == 3

\* the number of them that reach the adapters
MaxFresh == 2

\* the number of these that may use the pool: the first ones
MaxSubmits == 1

\* the last hour of the clock
MaxNow == 25

Strategies == {"sequential", "parallel", "best"}

\* the isbn arguments of search_by_isbn
IsbnInputs == {<<" ">>, <<" ", "1", "-">>}

\* the title and author arguments of search_by_title_author
TitleInputs == {<<>>, <<"A", " ">>}
AuthorInputs == {<<"B">>}

NoCall == [s \in SourceNames |-> "no"]

NoTasks == [s \in SourceNames |-> "idle"]
NoResults == [s \in SourceNames |-> Block(<<>>, FALSE)]
NoReturn == [status |-> "none", val |-> <<>>]

\* no call is in progress: n searches were made, fresh of them reached the
\* adapters.  Of a call, retry tells whether the last run of the parallel
\* strategy for its query lacked a source, and pair is the title and author
\* of a search by title, stripped and lowercased.
NoCallYet(n, fresh) ==
    [n |-> n, fresh |-> fresh, kind |-> "none", arg |-> <<>>,
     key |-> <<>>, gkey |-> <<>>,
     use_cache |-> FALSE, blank |-> FALSE, hit |-> "none", prior |-> -1,
     retry |-> FALSE, pair |-> <<>>,
     stats |-> [isbn_entries |-> 0, title_entries |-> 0]]
Returned(val) == [status |-> "ok", val |-> val]

\* MetaSearchService.get_cache_stats
get_cache_stats(ic, tc) ==
    [isbn_entries |-> Cardinality(DOMAIN ic), title_entries |-> Cardinality(DOMAIN tc)]

\* a guard that forgets strip(): not s
IsEmpty(s) == s = <<>>

\* the guard of search_by_isbn and search_by_title_author:
\* not s or not s.strip()
IsBlank(s) == s = <<>> \/ Strip(s) = <<>>

\* isbn.strip().replace("-", "").replace(" ", "")
IsbnClean(isbn) == Remove(Remove(Strip(isbn), "-"), " ")

\* the facade's cache key of a title search
TitleKey(title, author) == Lower(Strip(title)) \o <<":">> \o Lower(Strip(author))

\* the cache key of ParallelSearchStrategy.search_by_isbn
GlobalIsbnKey(isbn) == <<"i", "s", "b", "n", ":">> \o isbn

\* the cache key of ParallelSearchStrategy.search_by_title_author, called
\* with the stripped title and author
GlobalTitleKey(title, author) ==
    <<"t", "i", "t", "l", "e", "_", "a", "u", "t", "h", "o", "r", ":">>
    \o Lower(title) \o <<":">> \o Lower(author)

\* a facade that never looks into its cache
NoFacadeHit(use_cache, key, cache) == FALSE

\* the facade's test "use_cache and key in cache"
FacadeHit(use_cache, key, cache) == use_cache /\ key \in DOMAIN cache

\* the sequences that enumerate the set S
Perms(S) ==
    {f \in [1..Cardinality(S) -> S] : \A i, j \in 1..Cardinality(S) : f[i] = f[j] => i = j}

\* no adapter answers anything beforehand
NoAnswers == [s \in SourceNames |-> Outcome("none", <<>>, 0)]

\* the searches a behaviour makes: so many with a non-blank argument, so
\* many of them reaching the adapters, so many of these using the pool
Limits(searches, fresh, submits) ==
    [searches |-> searches, fresh |-> fresh, submits |-> submits]

\* no thread but the caller's uses the cache
NoThreads == <<>>

\* a database without books, members and loans
EmptyDatabase ==
    /\ copies = EmptyDict
    /\ loans = <<>>
    /\ members = EmptyDict
    /\ lret = NoReturn

Init ==
    /\ failed = {}
    /\ asked = EmptyDict
    /\ threads = NoThreads
    /\ answers = NoAnswers
    /\ limits = Limits(MaxSearches, MaxFresh, MaxSubmits)
    /\ EmptyDatabase
    /\ strategy \in Strategies
    /\ isbn_cache = EmptyDict
    /\ title_cache = EmptyDict
    /\ global_cache = EmptyDict
    /\ heap = EmptyHeap
    /\ now = 0
    /\ pc = "idle"
    /\ op = NoCallYet(0, 0)
    /\ tstate = NoTasks
    /\ tres = NoResults
    /\ order = <<>>
    /\ doneAtWait = {}
    /\ called = NoCall
    /\ raising = {}
    /\ sret = NoReturn
    /\ ret = NoReturn
    /\ seen = EmptyDict

\* ------------------------------------------------------------------------
\* MetaSearchService.search_by_isbn and search_by_title_author
\* ------------------------------------------------------------------------

\* the calls the caller makes: <<kind, isbn, "">> or <<kind, title, author>>
Queries ==
    {<<"isbn", i, <<>>>> : i \in IsbnInputs}
    \cup {<<"title", t, a>> : t \in TitleInputs, a \in AuthorInputs}

\* the facade's cache key of the query q
FacadeKey(q) == IF q[1] = "isbn" THEN IsbnClean(q[2]) ELSE TitleKey(q[2], q[3])

\* the key under which the parallel strategy caches the query q
GlobalKey(q) ==
    IF q[1] = "isbn" THEN GlobalIsbnKey(IsbnClean(q[2]))
    ELSE GlobalTitleKey(Strip(q[2]), Strip(q[3]))

\* the facade's cache of the kind of the query q
FacadeCache(q) == IF q[1] = "isbn" THEN isbn_cache ELSE title_cache

\* the title and the author of the query q as the cache keys hold them:
\* title.strip().lower() and author.strip().lower()
NormPair(q) == <<Lower(Strip(q[2])), Lower(Strip(q[3]))>>

\* the searches whose results the facade's dicts hold, once the search of
\* the kind for the pair has stored its list under the key
Asked(kind, key, pair, use_cache) ==
    IF use_cache
    THEN DictSet(asked, <<kind, key>>, [pair |-> pair, strategy |-> strategy])
    ELSE asked

\* the record of the call of q that starts now
Call(q, use_cache, hit) ==
    [n |-> op.n + 1, fresh |-> op.fresh + (IF hit = "none" THEN 1 ELSE 0),
     kind |-> q[1], arg |-> q[2],
     key |-> FacadeKey(q), gkey |-> GlobalKey(q),
     use_cache |-> use_cache, blank |-> FALSE,
     hit |-> hit,
     prior |-> IF q[1] = "isbn" /\ FacadeKey(q) \in DOMAIN seen
               THEN seen[FacadeKey(q)] ELSE -1,
     retry |-> GlobalKey(q) \in failed,
     pair |-> IF q[1] = "title" THEN NormPair(q) ELSE <<>>,
     stats |-> get_cache_stats(isbn_cache, title_cache)]

\* the use_cache searches by ISBN seen so far, after the call of q
Seen(q, use_cache) ==
    IF q[1] = "isbn" /\ use_cache THEN DictSet(seen, FacadeKey(q), now) ELSE seen

CanSearch == pc = "idle" /\ op.n < limits.searches

\* the end of search_by_isbn / search_by_title_author once the strategy has
\* returned the list at address rl of the heap h, gc being the global cache
\* then: the list is sorted in place, stored under the key when use_cache,
\* and returned
FacadeReturn(h, rl, gc, kind, key, use_cache) ==
    \E h2 \in {SortList(h, rl)} :
    \E c \in {Compact(IF use_cache /\ kind = "isbn"
                       THEN DictSet(isbn_cache, key, rl) ELSE isbn_cache,
                       IF use_cache /\ kind = "title"
                       THEN DictSet(title_cache, key, rl) ELSE title_cache,
                       gc, h2)} :
        /\ isbn_cache' = c.ic
        /\ title_cache' = c.tc
        /\ global_cache' = c.gc
        /\ heap' = c.heap
        /\ ret' = Returned(Contents(h2, rl))

\* BestResultStrategy.search_by_*: the list the parallel strategy returned,
\* at address l of h, deduplicated; under the parallel strategy the list
\* itself.  The facade then ends the call.
StrategyReturn(h, l, gc, kind, key, use_cache) ==
    IF strategy = "best"
    THEN \E d \in {DedupList(h, l)} :
            FacadeReturn(d.heap, IF d.new THEN Len(d.heap.lists) ELSE l,
                         gc, kind, key, use_cache)
    ELSE FacadeReturn(h, l, gc, kind, key, use_cache)

\* an empty or whitespace-only isbn or title: return []
SearchBlank(q, use_cache) ==
    /\ CanSearch
    /\ pc' = "returned"
    /\ IsBlank(q[2])
    /\ op' = [NoCallYet(op.n, op.fresh) EXCEPT
                  !.kind = q[1], !.arg = q[2], !.blank = TRUE, !.hit = "blank",
                  !.stats = get_cache_stats(isbn_cache, title_cache)]
    /\ called' = NoCall
    /\ raising' = {}
    /\ ret' = Returned(<<>>)
    /\ sret' = NoReturn
    /\ UNCHANGED <<failed, asked, fixedVars, loanVars, threadVars>>
    /\ UNCHANGED <<strategy, isbn_cache, title_cache, global_cache, heap, now,
                   tstate, tres, order, doneAtWait, seen>>

\* the key is in the facade's cache and use_cache is set: the cached list
\* is returned
SearchCached(q, use_cache) ==
    /\ CanSearch
    /\ pc' = "returned"
    /\ ~IsBlank(q[2])
    /\ FacadeHit(use_cache, FacadeKey(q), FacadeCache(q))
    /\ op' = Call(q, use_cache, "facade")
    /\ called' = NoCall
    /\ raising' = {}
    /\ ret' = Returned(Contents(heap, FacadeCache(q)[FacadeKey(q)]))
    /\ sret' = NoReturn
    /\ seen' = Seen(q, use_cache)
    /\ UNCHANGED <<failed, asked, fixedVars, loanVars, threadVars>>
    /\ UNCHANGED <<strategy, isbn_cache, title_cache, global_cache, heap, now,
                   tstate, tres, order, doneAtWait>>

\* a search the sequential strategy runs, on the caller's thread
SearchSequential(q, use_cache) ==
    /\ CanSearch
    /\ pc' = "returned"
    /\ ~IsBlank(q[2])
    /\ ~FacadeHit(use_cache, FacadeKey(q), FacadeCache(q))
    /\ strategy = "sequential"
    /\ op.fresh < limits.fresh
    /\ \E r \in (IF q[1] = "isbn" THEN SeqIsbnRuns ELSE SeqTitleRuns) :
          /\ called' = r.called
          /\ raising' = r.raising
          /\ IF r.raised
             THEN /\ ret' = [status |-> "raised", val |-> <<>>]
                  /\ UNCHANGED <<isbn_cache, title_cache, global_cache, heap, asked>>
             ELSE /\ \E h \in {AllocResults(heap, r.results)} :
                        FacadeReturn(h, Len(h.lists), global_cache,
                                     q[1], FacadeKey(q), use_cache)
                  /\ asked' = Asked(q[1], FacadeKey(q), NormPair(q), use_cache)
    /\ op' = Call(q, use_cache, "none")
    /\ sret' = NoReturn
    /\ seen' = Seen(q, use_cache)
    /\ UNCHANGED <<failed, fixedVars, loanVars, threadVars>>
    /\ UNCHANGED <<strategy, now, tstate, tres, order, doneAtWait>>

\* a search of the parallel or best-result strategy that the global cache
\* answers: cache.get(cache_key) returns a non-empty list
SearchParallelHit(q, use_cache) ==
    /\ CanSearch
    /\ pc' = "returned"
    /\ ~IsBlank(q[2])
    /\ ~FacadeHit(use_cache, FacadeKey(q), FacadeCache(q))
    /\ strategy \in {"parallel", "best"}
    /\ \E g \in {CacheGet(global_cache, GlobalKey(q), now)} :
           /\ g.hit
           /\ heap.lists[g.data] # <<>>
           /\ sret' = Returned(Contents(heap, g.data))
           /\ StrategyReturn(heap, g.data, g.cache, q[1], FacadeKey(q), use_cache)
    /\ op' = Call(q, use_cache, "global")
    /\ called' = NoCall
    /\ raising' = {}
    /\ seen' = Seen(q, use_cache)
    /\ asked' = Asked(q[1], FacadeKey(q), NormPair(q), use_cache)
    /\ UNCHANGED <<failed, fixedVars, loanVars, threadVars>>
    /\ UNCHANGED <<strategy, now, tstate, tres, order, doneAtWait>>

\* a search that asks the national library only
TasksOfBnf == {"BnF"}

\* the sources of search_tasks: every service of the facade
SearchTasks == SourceNames

\* a search of the parallel or best-result strategy that the global cache
\* does not answer (an expired entry is deleted): one task per source is
\* submitted to the pool of three workers, and wait() starts
SearchParallelSubmit(q, use_cache) ==
    /\ CanSearch
    /\ ~IsBlank(q[2])
    /\ ~FacadeHit(use_cache, FacadeKey(q), FacadeCache(q))
    /\ strategy \in {"parallel", "best"}
    /\ \E g \in {CacheGet(global_cache, GlobalKey(q), now)} :
       \E c \in {Compact(isbn_cache, title_cache, g.cache, heap)} :
           /\ ~(g.hit /\ heap.lists[g.data] # <<>>)
           /\ global_cache' = c.gc
           /\ isbn_cache' = c.ic
           /\ title_cache' = c.tc
           /\ heap' = c.heap
    /\ op.fresh < limits.submits
    /\ op' = Call(q, use_cache, "none")
    /\ pc' = "waiting"
    /\ tstate' = [s \in SourceNames |-> IF s \in SearchTasks THEN "running" ELSE "idle"]
    /\ tres' = NoResults
    /\ called' = [s \in SourceNames |-> IF s \in SearchTasks THEN "running" ELSE "no"]
    /\ raising' = {}
    /\ order' = <<>>
    /\ doneAtWait' = {}
    /\ ret' = NoReturn
    /\ sret' = NoReturn
    /\ seen' = Seen(q, use_cache)
    /\ UNCHANGED <<failed, asked, fixedVars, loanVars, threadVars>>
    /\ UNCHANGED <<strategy, now>>

\* ------------------------------------------------------------------------
\* ParallelSearchStrategy: the tasks, wait() and the end of the call
\* ------------------------------------------------------------------------

\* a worker thread ends _search_single_source for the source s, its run
\* being one of runs
TaskEnds(s, runs) ==
    /\ pc \in {"waiting", "shutdown"}
    /\ tstate[s] = "running"
    /\ \E r \in runs :
          /\ tres' = [tres EXCEPT ![s] = Block(r.items, FALSE)]
          /\ called' = [called EXCEPT ![s] =
                          IF pc = "waiting" THEN r.answered ELSE "late"]
          /\ raising' = (IF r.raising THEN raising \cup {s} ELSE raising)
    /\ tstate' = [tstate EXCEPT ![s] = "finished"]
    /\ UNCHANGED <<failed, asked, fixedVars, loanVars, threadVars>>
    /\ UNCHANGED <<strategy, isbn_cache, title_cache, global_cache, heap, now, pc,
                   op, order, doneAtWait, sret, ret, seen>>

\* a worker thread ends _search_single_source for the source s, whatever
\* its adapter answered
TaskFinish(s) == TaskEnds(s, TaskRuns[s][TaskMethod(op.kind, s)])

\* a done set that holds every future submitted
AllSubmitted(ts) == {s \in SourceNames : ts[s] # "idle"}

\* the done set of concurrent.futures.wait(futures, timeout): the futures
\* that have finished when it returns
Done(ts) == {s \in SourceNames : ts[s] = "finished"}

\* concurrent.futures.wait returns, every task having finished or the
\* timeout having elapsed: the done set is fixed
WaitEnd ==
    /\ pc = "waiting"
    /\ doneAtWait' = Done(tstate)
    /\ pc' = "shutdown"
    /\ UNCHANGED <<failed, asked, fixedVars, loanVars, threadVars>>
    /\ UNCHANGED <<strategy, isbn_cache, title_cache, global_cache, heap, now, op,
                   tstate, tres, order, called, raising, sret, ret, seen>>

RECURSIVE Collect(_, _)
\* for fut in done: value = fut.result(); results.extend(value), the
\* exception of a task being caught and logged
Collect(ord, res) ==
    IF ord = <<>> THEN <<>>
    ELSE (IF res[Head(ord)].raised THEN <<>> ELSE res[Head(ord)].items)
         \o Collect(Tail(ord), res)

\* the sources a run of the parallel strategy lacks: their task had not
\* finished when wait() returned, or their adapter raised
Lacking(done, raisers) == (SourceNames \ done) \cup raisers

\* leaving the with block shuts the executor down and waits for its tasks
PoolShutDown(ts) == \A s \in SourceNames : ts[s] # "running"

\* the end of ParallelSearchStrategy.search_by_*: the results of the done
\* set, iterated in some order, are collected, the pool is shut down,
\* non-empty results are cached, and the list goes back through the strategy
\* and the facade to the caller
ParallelReturn ==
    /\ pc = "shutdown"
    /\ PoolShutDown(tstate)
    /\ \E ord \in Perms(doneAtWait) :
       \E results \in {Collect(ord, tres)} :
       \E h \in {AllocResults(heap, results)} :
          /\ order' = ord
          /\ sret' = Returned(results)
          /\ StrategyReturn(h, Len(h.lists),
                            IF results # <<>>
                            THEN CacheSet(global_cache, op.gkey, Len(h.lists), now)
                            ELSE global_cache,
                            op.kind, op.key, op.use_cache)
    /\ pc' = "returned"
    /\ tstate' = NoTasks
    /\ failed' = IF Lacking(doneAtWait, raising) # {}
                 THEN failed \cup {op.gkey} ELSE failed \ {op.gkey}
    /\ asked' = Asked(op.kind, op.key, op.pair, op.use_cache)
    /\ UNCHANGED <<fixedVars, loanVars, threadVars>>
    /\ UNCHANGED <<strategy, now, op, tres, doneAtWait, called, raising, seen>>

\* ------------------------------------------------------------------------
\* The other operations and the specification
\* ------------------------------------------------------------------------

\* the caller goes on with the list it was returned; what the call left
\* to observe is dropped
Resume ==
    /\ pc = "returned"
    /\ pc' = "idle"
    /\ op' = NoCallYet(op.n, op.fresh)
    /\ tres' = NoResults
    /\ order' = <<>>
    /\ doneAtWait' = {}
    /\ called' = NoCall
    /\ raising' = {}
    /\ sret' = NoReturn
    /\ ret' = NoReturn
    /\ UNCHANGED <<failed, asked, fixedVars, loanVars, threadVars>>
    /\ UNCHANGED <<strategy, isbn_cache, title_cache, global_cache, heap, now,
                   tstate, seen>>

\* MetaSearchService.set_strategy
SetStrategy(s) ==
    /\ pc = "idle"
    /\ s # strategy
    /\ strategy' = s
    /\ UNCHANGED <<failed, asked, fixedVars, loanVars, threadVars>>
    /\ UNCHANGED <<isbn_cache, title_cache, global_cache, heap, now, pc, op, tstate,
                   tres, order, doneAtWait, called, raising, sret, ret, seen>>

\* MetaSearchService.clear_cache: the facade's two dicts are emptied; op
\* tells that it is the last call the facade was made
ClearCache ==
    /\ pc = "idle"
    /\ op' = [NoCallYet(op.n, op.fresh) EXCEPT !.kind = "clear"]
    /\ \E c \in {Compact(EmptyDict, EmptyDict, global_cache, heap)} :
           /\ isbn_cache' = c.ic
           /\ title_cache' = c.tc
           /\ global_cache' = c.gc
           /\ heap' = c.heap
    /\ seen' = EmptyDict
    /\ asked' = EmptyDict
    /\ UNCHANGED <<failed, fixedVars, loanVars, threadVars>>
    /\ UNCHANGED <<strategy, now, pc, tstate, tres, order, doneAtWait, called, raising,
                   sret, ret>>

\* time passes between two calls, the first call being made at hour 0
Tick ==
    /\ pc = "idle"
    /\ op.n > 0
    /\ \E d \in {TtlHours, TtlHours + 1} : now + d <= MaxNow /\ now' = now + d
    /\ UNCHANGED <<failed, asked, fixedVars, loanVars, threadVars>>
    /\ UNCHANGED <<strategy, isbn_cache, title_cache, global_cache, heap, pc, op,
                   tstate, tres, order, doneAtWait, called, raising, sret, ret, seen>>

Next ==
    \/ \E q \in Queries, u \in BOOLEAN : SearchBlank(q, u)
    \/ \E q \in Queries, u \in BOOLEAN : SearchCached(q, u)
    \/ \E q \in Queries, u \in BOOLEAN : SearchSequential(q, u)
    \/ \E q \in Queries, u \in BOOLEAN : SearchParallelHit(q, u)
    \/ \E q \in Queries, u \in BOOLEAN : SearchParallelSubmit(q, u)
    \/ \E s \in SourceNames : TaskFinish(s)
    \/ WaitEnd
    \/ ParallelReturn
    \/ Resume
    \/ \E s \in Strategies : SetStrategy(s)
    \/ ClearCache
    \/ Tick

Spec == Init /\ [][Next]_vars

\* ------------------------------------------------------------------------
\* The properties of the facade, its caches and the pool
\* ------------------------------------------------------------------------

\* C1: whatever the adapters do (raise, return None, return an empty list,
\* return records) and whatever the strategy, no exception leaves
\* search_by_isbn or search_by_title_author, and a call that has returned
\* has returned a list.
NeverRaises ==
    /\ ret.status # "raised"
    /\ pc = "returned" => ret.status = "ok" /\ DOMAIN ret.val = 1..Len(ret.val)

\* a call in which an adapter raised has returned a non-empty list
NeverRaisesWitness ==
    /\ pc = "returned"
    /\ strategy = "sequential"
    /\ raising # {}
    /\ ret.status = "ok"
    /\ ret.val # <<>>

\* the scores of rs never increase from one result to the next
Descending(rs) == \A i \in 1..(Len(rs) - 1) : rs[i].score >= rs[i + 1].score

\* C2: every list a search returns, from a fresh search or from a cache,
\* is sorted by score descending.
ReturnedSorted == pc = "returned" => Descending(ret.val)

\* the call in progress is a use_cache search by ISBN for a key that an
\* earlier use_cache search asked for, no clear_cache in between
Repeated ==
    /\ pc # "idle"
    /\ op.kind = "isbn"
    /\ op.use_cache
    /\ op.prior >= 0

\* C3: a use_cache search by ISBN that repeats an earlier one within the
\* TTL window is answered from the facade's cache, and no adapter is
\* called.
RepeatedWithinTtlIsCached ==
    (Repeated /\ now <= op.prior + TtlHours) => (op.hit = "facade" /\ called = NoCall)

\* a repeated search at the very end of the window has returned records
RepeatedWithinTtlWitness ==
    /\ Repeated
    /\ pc = "returned"
    /\ now = op.prior + TtlHours
    /\ ret.val # <<>>

\* C4: a use_cache search by ISBN that repeats an earlier one after the TTL
\* has expired calls the adapters again.
RepeatedAfterTtlCallsAdapters ==
    (Repeated /\ pc = "returned" /\ now > op.prior + TtlHours) => called # NoCall

\* C5: a search in which every adapter answers nothing (it raises, or
\* returns None or an empty list) leaves the entry counts of
\* get_cache_stats as they were before the call.
EmptyNeverCached ==
    (pc = "returned" /\ \A s \in SourceNames : called[s] = "nothing")
        => get_cache_stats(isbn_cache, title_cache) = op.stats

\* the task of the source s had finished when wait() returned
OnTime(s) == called[s] \in {"records", "nothing"}

\* the parallel strategy has returned from a search that ran the tasks
PoolReturned == pc = "returned" /\ op.hit = "none" /\ sret.status = "ok"

\* C6: the list the parallel strategy returns holds, for each task that had
\* finished when wait() returned, exactly the results of that task, and no
\* result of a task that had not, even if that task finished afterwards.
OnlyDoneTasksContribute ==
    PoolReturned =>
        /\ \A s \in SourceNames :
              OnTime(s) => SelectSeq(sret.val, LAMBDA r : r.src = s) = tres[s].items
        /\ \A i \in 1..Len(sret.val) : OnTime(sret.val[i].src)

\* a task that finished after wait() with results, which are not in the
\* non-empty list returned
OnlyDoneTasksWitness ==
    /\ PoolReturned
    /\ sret.val # <<>>
    /\ \E s \in SourceNames : called[s] = "late" /\ tres[s].items # <<>>

\* C7: once wait() has returned, the parallel strategy can return to its
\* caller, whether or not tasks are still running.
ReturnsWithoutWaiting == pc = "shutdown" => ENABLED ParallelReturn

\* the string s is empty or holds only whitespace
AllSpaces(s) == \A i \in 1..Len(s) : IsSpace(s[i])

\* C8: a search whose isbn or title is empty or whitespace-only returns an
\* empty list at once: no strategy runs, no adapter is called, and the
\* caches and the results they hold are left as they were.
BlankShortCircuit ==
    [][(pc = "idle" /\ pc' # "idle" /\ AllSpaces(op'.arg)) =>
          /\ pc' = "returned"
          /\ ret' = Returned(<<>>)
          /\ called' = NoCall
          /\ sret' = NoReturn
          /\ UNCHANGED <<isbn_cache, title_cache, global_cache, heap>>]_vars

\* a whitespace-only search has returned while the caches hold entries
BlankShortCircuitWitness ==
    /\ pc = "returned"
    /\ op.blank
    /\ op.arg # <<>>
    /\ isbn_cache # EmptyDict
    /\ global_cache # EmptyDict

\* ------------------------------------------------------------------------
\* The properties of the caches across calls
\* ------------------------------------------------------------------------

\* what the caches hold: per key the results of its list, in their order,
\* and for the global cache the time the entry was created
IsbnView == [k \in DOMAIN isbn_cache |-> Contents(heap, isbn_cache[k])]
TitleView == [k \in DOMAIN title_cache |-> Contents(heap, title_cache[k])]
GlobalView ==
    [k \in DOMAIN global_cache |->
        [data |-> Contents(heap, global_cache[k].data),
         created_at |-> global_cache[k].created_at]]

\* C26: a search with a non-blank argument and use_cache=False is answered
\* by no cache, and no step of it changes what the caches hold.
UseCacheFalseBypassesCaches ==
    [][(pc' # "idle" /\ op'.kind \in {"isbn", "title"} /\ ~op'.blank /\ ~op'.use_cache) =>
          /\ op'.hit = "none"
          /\ IsbnView' = IsbnView
          /\ TitleView' = TitleView
          /\ GlobalView' = GlobalView]_vars

\* C27: the first search with a non-blank argument after clear_cache is
\* answered by no cache: the strategy asks the adapters.
ClearedCacheAnswersNothing ==
    [][(pc = "idle" /\ op.kind = "clear" /\ pc' # "idle" /\ ~op'.blank) =>
          op'.hit = "none"]_vars

\* when the parallel strategy has stored the list it returns, the global
\* cache holds that list as it was returned
StoredAsReturned ==
    (PoolReturned /\ sret.val # <<>>) => GlobalView[op.gkey].data = sret.val

\* C28: a cache entry holds the results that were stored, in their order:
\* the global cache holds the list of the parallel strategy as it returned
\* it, and no step changes what an entry of the facade's dicts holds, nor
\* what an entry of the global cache holds as long as it is not stored
\* again.
EntriesNeverChange ==
    /\ []StoredAsReturned
    /\ [][/\ \A k \in DOMAIN isbn_cache \cap DOMAIN isbn_cache' :
                IsbnView'[k] = IsbnView[k]
          /\ \A k \in DOMAIN title_cache \cap DOMAIN title_cache' :
                TitleView'[k] = TitleView[k]
          /\ \A k \in DOMAIN global_cache \cap DOMAIN global_cache' :
                global_cache'[k].created_at = global_cache[k].created_at
                    => GlobalView'[k] = GlobalView[k]]_vars

\* C30: once set_strategy(s) has been called, a search with a non-blank
\* argument is executed by s: when the facade's cache answers it, the
\* results it returns were produced by s, not by a strategy set before.
SearchesRunTheSetStrategy ==
    [][(pc = "idle" /\ pc' = "returned" /\ op'.kind \in {"isbn", "title"}
           /\ op'.hit = "facade")
         => asked[<<op'.kind, op'.key>>].strategy = strategy']_vars

\* ------------------------------------------------------------------------
\* BestResultStrategy on fixed answers of the adapters, run twice
\* ------------------------------------------------------------------------

\* what the three tasks of a search of the given kind return
TaskResults(kind) ==
    {[s \in SourceNames |-> Block(Outs(rb, rg, ro)[s].items, FALSE)] :
        rb \in TaskRuns["BnF"][TaskMethod(kind, "BnF")],
        rg \in TaskRuns["Google Books"][TaskMethod(kind, "Google Books")],
        ro \in TaskRuns["OpenLibrary"][TaskMethod(kind, "OpenLibrary")]}

\* what a run leaves: the order the tasks were collected in, the results as
\* they arrived, the representatives _deduplicate_results picked among
\* them, and the list it returned, the representatives after their merge
BestOut(ord, arrived, d) ==
    [status |-> "ok", order |-> ord, arrived |-> arrived,
     picked |-> [g \in 1..Len(d.reps) |-> arrived[d.reps[g]]],
     val |-> [g \in 1..Len(d.reps) |-> d.recs[d.reps[g]]]]

\* BestResultStrategy.search_by_*, every task being done when wait()
\* returns and the done set being iterated in the order ord
BestOfArrived(ord, arrived) == BestOut(ord, arrived, deduplicate_results(arrived))

\* the search the two runs make: search_by_isbn("1") or
\* search_by_title_author("A", "B")
DedupQuery(kind) ==
    IF kind = "isbn" THEN <<"isbn", <<"1">>, <<>>>> ELSE <<"title", <<"A">>, <<"B">>>>

InitDedup ==
    /\ failed = {}
    /\ asked = EmptyDict
    /\ threads = NoThreads
    /\ answers = NoAnswers
    /\ limits = Limits(MaxSearches, MaxFresh, MaxSubmits)
    /\ EmptyDatabase
    /\ strategy = "best"
    /\ isbn_cache = EmptyDict
    /\ title_cache = EmptyDict
    /\ global_cache = EmptyDict
    /\ heap = EmptyHeap
    /\ now = 0
    /\ pc = "idle"
    /\ \E kind \in {"isbn", "title"} :
          /\ op = [NoCallYet(0, 0) EXCEPT
                      !.kind = kind, !.gkey = GlobalKey(DedupQuery(kind))]
          /\ tres \in TaskResults(kind)
    /\ tstate = [s \in SourceNames |-> "finished"]
    /\ order = <<>>
    /\ doneAtWait = SourceNames
    /\ called = NoCall
    /\ raising = {}
    /\ sret = NoReturn
    /\ ret = NoReturn
    /\ seen = EmptyDict

\* a run the global cache does not answer, gc being the cache after the
\* lookup: the results are collected in the order ord into a new list,
\* which is stored under the key when it is not empty, and
\* _deduplicate_results then merges the representatives in place
BestFresh(gc, h, key, ord, res) ==
    LET arrived == Collect(ord, res)
        h1 == AllocResults(h, arrived)
    IN  [out |-> BestOfArrived(ord, arrived),
         gc |-> IF arrived # <<>> THEN CacheSet(gc, key, Len(h1.lists), now) ELSE gc,
         heap |-> DedupList(h1, Len(h1.lists)).heap]

\* a run the global cache answers with the list at address l: no task is
\* submitted, and _deduplicate_results gets the cached list, whose
\* representatives it merges in place again
BestCached(gc, h, l) ==
    [out |-> BestOfArrived(<<>>, Contents(h, l)),
     gc |-> gc,
     heap |-> DedupList(h, l).heap]

\* BestResultStrategy.search_by_isbn / search_by_title_author, the tasks
\* of a run that reaches the adapters being collected in the order ord
BestSearch(ord) ==
    LET g == CacheGet(global_cache, op.gkey, now) IN
    IF g.hit /\ heap.lists[g.data] # <<>>
    THEN BestCached(g.cache, heap, g.data)
    ELSE BestFresh(g.cache, heap, op.gkey, ord, tres)

\* the run r leaves the global cache and the heap it ends with
RunLeaves(r) ==
    \E c \in {Compact(isbn_cache, title_cache, r.gc, r.heap)} :
        /\ global_cache' = c.gc
        /\ heap' = c.heap

\* the first run, the results arriving in some order
FirstRun ==
    /\ sret = NoReturn
    /\ \E ord \in Perms(doneAtWait) :
       \E r \in {BestSearch(ord)} :
          /\ sret' = r.out
          /\ RunLeaves(r)
    /\ UNCHANGED <<failed, asked, fixedVars, loanVars, threadVars>>
    /\ UNCHANGED <<strategy, isbn_cache, title_cache, now, pc,
                   op, tstate, tres, order, doneAtWait, called, raising, ret, seen>>

\* the entry of the first run, if any, reaches or passes its time to live
\* before the second run
BetweenRuns ==
    /\ sret # NoReturn
    /\ ret = NoReturn
    /\ now = 0
    /\ now' \in {TtlHours, TtlHours + 1}
    /\ UNCHANGED <<failed, asked, fixedVars, loanVars, threadVars>>
    /\ UNCHANGED <<strategy, isbn_cache, title_cache, global_cache, heap, pc,
                   op, tstate, tres, order, doneAtWait, called, raising, sret, ret, seen>>

\* the second run on the same answers: the global cache answers it when it
\* holds a live entry, otherwise the results arrive in some order
SecondRun ==
    /\ sret # NoReturn
    /\ ret = NoReturn
    /\ \E ord \in Perms(doneAtWait) :
       \E r \in {BestSearch(ord)} :
          /\ ret' = r.out
          /\ RunLeaves(r)
    /\ UNCHANGED <<failed, asked, fixedVars, loanVars, threadVars>>
    /\ UNCHANGED <<strategy, isbn_cache, title_cache, now, pc,
                   op, tstate, tres, order, doneAtWait, called, raising, sret, seen>>

NextDedup ==
    \/ FirstRun
    \/ BetweenRuns
    \/ SecondRun

SpecDedup == InitDedup /\ [][NextDedup]_vars

\* the results of the run out that belong to the group of key k
GroupMembers(out, k) ==
    {out.arrived[i] : i \in {j \in 1..Len(out.arrived) : KeyOf(out.arrived[j]) = k}}

\* C9: when the representative of a group has no isbn and another member
\* of the group has one, the merged result carries an isbn.
IsbnBackfilled ==
    sret.status = "ok" =>
        \A g \in 1..Len(sret.val) :
            (/\ sret.picked[g].isbn = <<>>
             /\ \E r \in GroupMembers(sret, KeyOf(sret.picked[g])) : r.isbn # <<>>)
                => sret.val[g].isbn # <<>>

\* both runs have returned
BothRuns == sret.status = "ok" /\ ret.status = "ok"

\* the two runs return as many groups
SameGroups == Len(sret.val) = Len(ret.val)

\* what tells a result from the other results of a search: its source and
\* the fields that no merge changes
Ident(r) ==
    [src |-> r.src, title |-> r.title, main_author |-> r.main_author,
     isbn |-> r.isbn, year |-> r.year]

\* the two runs pick the same representative in the group of key k
SameRep(k) ==
    \A g \in 1..Len(sret.picked), h \in 1..Len(ret.picked) :
        (KeyOf(sret.picked[g]) = k /\ KeyOf(ret.picked[h]) = k)
            => Ident(sret.picked[g]) = Ident(ret.picked[h])

\* the keys of the groups of the first run
GroupKeys == {KeyOf(sret.picked[g]) : g \in 1..Len(sret.picked)}

\* C10: two runs of the Best-result strategy on the same answers return as
\* many groups and pick the same representative in each group, whatever
\* the orders the results arrived in.
ArrivalOrderIrrelevant ==
    BothRuns => (SameGroups /\ \A k \in GroupKeys : SameRep(k))

\* the sources of the members of the group of key k that have its highest
\* score
TopSources(k) ==
    {r.src : r \in {t \in GroupMembers(sret, k) :
                      \A u \in GroupMembers(sret, k) : u.score <= t.score}}

\* C10, amended: the two runs return as many groups, and pick the same
\* representative in every group whose highest score is that of results of
\* one source only.
ArrivalOrderIrrelevantWithoutTies ==
    BothRuns =>
        /\ SameGroups
        /\ \A k \in GroupKeys : Cardinality(TopSources(k)) = 1 => SameRep(k)

\* the first result of the group of key k to arrive in the run out
FirstArrived(out, k) ==
    out.arrived[CHOOSE i \in 1..Len(out.arrived) :
                    /\ KeyOf(out.arrived[i]) = k
                    /\ \A j \in 1..(i - 1) : KeyOf(out.arrived[j]) # k]

\* two runs in which a group of results of several sources, one source
\* having the highest score, opened with different results
ArrivalOrderWitness ==
    /\ BothRuns
    /\ \E k \in GroupKeys :
          /\ Cardinality(TopSources(k)) = 1
          /\ Cardinality({r.src : r \in GroupMembers(sret, k)}) > 1
          /\ Ident(FirstArrived(sret, k)) # Ident(FirstArrived(ret, k))
          /\ FirstArrived(sret, k).src \notin TopSources(k)

\* the keys of the results that arrived in the first run
ArrivedKeys == {KeyOf(sret.arrived[i]) : i \in 1..Len(sret.arrived)}

\* C11: the Best-result strategy returns one result per deduplication key
\* of the results gathered: no two outputs have the same key, every key
\* gathered has its output, and each output is the representative picked
\* among the members of its group (same key, title, main author and
\* source).
OneResultPerKey ==
    sret.status = "ok" =>
        /\ \A g, h \in 1..Len(sret.val) :
              KeyOf(sret.val[g]) = KeyOf(sret.val[h]) => g = h
        /\ {KeyOf(sret.val[g]) : g \in 1..Len(sret.val)} = ArrivedKeys
        /\ Len(sret.val) = Cardinality(ArrivedKeys)
        /\ \A g \in 1..Len(sret.val) :
              /\ sret.picked[g] \in GroupMembers(sret, KeyOf(sret.val[g]))
              /\ sret.val[g].title = sret.picked[g].title
              /\ sret.val[g].main_author = sret.picked[g].main_author
              /\ sret.val[g].src = sret.picked[g].src

\* a run that gathered results of several keys, some of them sharing a key
OneResultPerKeyWitness ==
    /\ sret.status = "ok"
    /\ Len(sret.val) >= 2
    /\ Len(sret.arrived) > Len(sret.val)

\* C17: the merge leaves the score of the representative as it was computed
\* when the result was constructed.
ScoreUnchangedByMerge ==
    sret.status = "ok" =>
        \A g \in 1..Len(sret.val) : sret.val[g].score = sret.picked[g].score

\* the fields the claim on backfill names
BackfillFields ==
    {"subtitle", "description", "summary", "thumbnail_url", "publisher", "collection"}

\* the non-empty values of the field f among the members of the group of
\* the representative rep
ValuesIn(rep, f) ==
    {m[f] : m \in {x \in GroupMembers(sret, KeyOf(rep)) : x[f] # <<>>}}

\* C18: after the merge each backfill field of the representative is its
\* own value when that was non-empty, otherwise the non-empty value of a
\* member of its group, and it is empty only when the field is empty on
\* every member.
BackfillFromSiblings ==
    sret.status = "ok" =>
        \A g \in 1..Len(sret.val), f \in BackfillFields :
            IF sret.picked[g][f] # <<>> THEN sret.val[g][f] = sret.picked[g][f]
            ELSE IF ValuesIn(sret.picked[g], f) = {} THEN sret.val[g][f] = <<>>
            ELSE sret.val[g][f] \in ValuesIn(sret.picked[g], f)

\* a representative that kept its publisher although a sibling has another
\* one, and took the subtitle it lacked from a sibling
BackfillWitness ==
    /\ sret.status = "ok"
    /\ \E g \in 1..Len(sret.val) :
          /\ sret.picked[g].publisher # <<>>
          /\ Cardinality(ValuesIn(sret.picked[g], "publisher")) > 1
          /\ sret.picked[g].subtitle = <<>>
          /\ sret.val[g].subtitle # <<>>
          /\ sret.picked[g].collection = <<>>
          /\ sret.val[g].collection # <<>>

\* the positions of the results of key k in the first run
PositionsOf(k) == {i \in 1..Len(sret.arrived) : KeyOf(sret.arrived[i]) = k}

\* the positions of key k whose score no result of that key exceeds
TopPositions(k) ==
    {i \in PositionsOf(k) :
        \A j \in PositionsOf(k) : sret.arrived[j].score <= sret.arrived[i].score}

\* the least of a non-empty set of positions
FirstPosition(S) == CHOOSE i \in S : \A j \in S : i <= j

\* C19: the representative of each group is its member of the highest
\* score, and among several members of that score the one that arrived
\* first.
RepresentativeIsFirstBest ==
    sret.status = "ok" =>
        \A g \in 1..Len(sret.picked) :
            sret.picked[g] =
                sret.arrived[FirstPosition(TopPositions(KeyOf(sret.picked[g])))]

\* a group in which two different results have the highest score and the
\* first result to arrive has a lower one
RepresentativeWitness ==
    /\ sret.status = "ok"
    /\ \E k \in ArrivedKeys :
          /\ \E i, j \in TopPositions(k) : sret.arrived[i] # sret.arrived[j]
          /\ FirstPosition(PositionsOf(k)) \notin TopPositions(k)

\* the authors of the members of the group of the representative rep
SiblingAuthors(rep) ==
    UNION {{m.authors[i] : i \in 1..Len(m.authors)} :
              m \in GroupMembers(sret, KeyOf(rep))}

\* the name a is among the names as, letter case apart
AmongIgnoringCase(a, as) == \E i \in 1..Len(as) : Lower(as[i]) = Lower(a)

\* C24: after the merge the authors of a representative are its own
\* authors in their order, followed by authors of its siblings; every
\* author of a sibling is among them, letter case apart, and no two of
\* them differ only in letter case, nor is one the empty string.
AuthorsUnionedIgnoringCase ==
    sret.status = "ok" =>
        \A g \in 1..Len(sret.val) :
            /\ SubSeq(sret.val[g].authors, 1, Len(sret.picked[g].authors))
                   = sret.picked[g].authors
            /\ \A i \in 1..Len(sret.val[g].authors) :
                   /\ sret.val[g].authors[i] \in SiblingAuthors(sret.picked[g])
                   /\ sret.val[g].authors[i] # <<>>
            /\ \A a \in SiblingAuthors(sret.picked[g]) :
                   AmongIgnoringCase(a, sret.val[g].authors)
            /\ \A i, j \in 1..Len(sret.val[g].authors) :
                   Lower(sret.val[g].authors[i]) = Lower(sret.val[g].authors[j])
                       => i = j

\* ------------------------------------------------------------------------
\* The metrics of the parallel strategy
\* ------------------------------------------------------------------------

\* _SourceMetric.status of the source s when the call ends: "timeout" for a
\* future of not_done, "error" when fut.result() raised, "success" otherwise
MetricStatus(done, res, s) ==
    IF s \notin done THEN "timeout"
    ELSE IF res[s].raised THEN "error"
    ELSE "success"

\* the results of the source s in the list rs
ResultsOf(rs, s) == SelectSeq(rs, LAMBDA r : r.src = s)

\* a source whose adapter raised contributes nothing, the tasks that had
\* finished when wait() returned contribute their results, and the caller
\* gets a list
RaisingAdapterIsContained(s) ==
    /\ ret.status = "ok"
    /\ ResultsOf(sret.val, s) = <<>>
    /\ \A t \in doneAtWait \ {s} : ResultsOf(sret.val, t) = tres[t].items

\* C16: when the adapter of a source raises during a search of the parallel
\* strategy, its task having finished when wait() returned, the caller gets
\* a list without results of that source and with those of the other
\* sources, and the _SourceMetric of that source ends with status "error".
RaisingAdapterIsRecorded ==
    PoolReturned =>
        \A s \in raising \cap doneAtWait :
            /\ RaisingAdapterIsContained(s)
            /\ MetricStatus(doneAtWait, tres, s) = "error"

\* ------------------------------------------------------------------------
\* SequentialSearchStrategy on answers of the adapters fixed beforehand
\* ------------------------------------------------------------------------

\* what the try block of the source s leaves when its adapter answers out
SeqBlock(kind, s, out) ==
    IF kind = "isbn" THEN SeqIsbnBlock(s, out) ELSE SeqTitleBlock(s, out)

InitSeq ==
    /\ failed = {}
    /\ asked = EmptyDict
    /\ threads = NoThreads
    /\ limits = Limits(MaxSearches, MaxFresh, MaxSubmits)
    /\ EmptyDatabase
    /\ strategy = "sequential"
    /\ isbn_cache = EmptyDict
    /\ title_cache = EmptyDict
    /\ global_cache = EmptyDict
    /\ heap = EmptyHeap
    /\ now = 0
    /\ pc = "idle"
    /\ \E kind \in {"isbn", "title"} :
          /\ op = [NoCallYet(0, 0) EXCEPT !.kind = kind]
          /\ answers \in AllOuts(kind)
    /\ tstate = NoTasks
    /\ tres = NoResults
    /\ order = <<>>
    /\ doneAtWait = {}
    /\ called = NoCall
    /\ raising = {}
    /\ sret = NoReturn
    /\ ret = NoReturn
    /\ seen = EmptyDict

\* SequentialSearchStrategy.search_by_isbn / search_by_title_author: order
\* becomes the sources called, in the order of their calls, and tres what
\* the try block of each of them left
SeqSearchRun ==
    /\ pc = "idle"
    /\ pc' = "returned"
    /\ \E st \in {SequentialSearch(op.kind, answers)} :
          /\ order' = st.called
          /\ tres' = [s \in SourceNames |->
                        IF WasCalled(st, s) THEN SeqBlock(op.kind, s, answers[s])
                        ELSE NoResults[s]]
          /\ called' = SeqRun(answers, st).called
          /\ raising' = SeqRun(answers, st).raising
          /\ sret' = IF st.raised THEN [status |-> "raised", val |-> <<>>]
                     ELSE Returned(st.results)
    /\ UNCHANGED <<failed, asked, fixedVars, loanVars, threadVars>>
    /\ UNCHANGED <<strategy, isbn_cache, title_cache, global_cache, heap, now, op,
                   tstate, doneAtWait, ret, seen>>

NextSeq ==
    \/ SeqSearchRun

SpecSeq == InitSeq /\ [][NextSeq]_vars

\* the priority order of the sources for the search in progress
PriorityOrder == IF op.kind = "isbn" THEN SeqIsbnOrder ELSE SeqTitleOrder

\* the try block of the source s left at least one result
Yielded(s) == tres[s].items # <<>>

\* C12: the sequential strategy calls the adapters in its priority order,
\* calls one only when each earlier one raised or left no result, stops at
\* the first that yields a result, and returns the results of that adapter
\* alone.
SequentialStopsAtFirst ==
    (pc = "returned" /\ sret.status = "ok") =>
        /\ order = SubSeq(PriorityOrder, 1, Len(order))
        /\ \A i \in 1..(Len(order) - 1) :
              tres[order[i]].raised \/ ~Yielded(order[i])
        /\ \A i \in 1..(Len(order) - 1) : ~Yielded(order[i])
        /\ Len(order) < Len(PriorityOrder) => Yielded(order[Len(order)])
        /\ \A k \in 1..Len(sret.val) : sret.val[k].src = order[Len(order)]

\* ------------------------------------------------------------------------
\* SimpleCache alone: set, get and the clock
\* ------------------------------------------------------------------------

\* the number of calls of set and get a behaviour makes
MaxCacheCalls == 4

\* the keys set and get are called with
CacheKeys == {<<"k">>, <<"l">>}

\* two lists of results to store
CacheHeap ==
    AllocResults(
        AllocResults(EmptyHeap,
                     <<from_bnf_book(BnfY, SearchSourceInfo("BnF", 95, 1)).val>>),
        <<from_ext_book(ExtX, SearchSourceInfo("OpenLibrary", 75, 1)).val>>)

\* what get returns when it returns None
Miss == [status |-> "miss", val |-> <<>>]

InitCache ==
    /\ failed = {}
    /\ asked = EmptyDict
    /\ threads = NoThreads
    /\ answers = NoAnswers
    /\ limits = Limits(MaxSearches, MaxFresh, MaxSubmits)
    /\ EmptyDatabase
    /\ strategy = "parallel"
    /\ isbn_cache = EmptyDict
    /\ title_cache = EmptyDict
    /\ global_cache = EmptyDict
    /\ heap = CacheHeap
    /\ now = 0
    /\ pc = "idle"
    /\ op = NoCallYet(0, 0)
    /\ tstate = NoTasks
    /\ tres = NoResults
    /\ order = <<>>
    /\ doneAtWait = {}
    /\ called = NoCall
    /\ raising = {}
    /\ sret = NoReturn
    /\ ret = NoReturn
    /\ seen = EmptyDict

\* SimpleCache.set(key, data), data being the list at address l
CacheSetCall(k, l) ==
    /\ op.n < MaxCacheCalls
    /\ global_cache' = CacheSet(global_cache, k, l, now)
    /\ op' = [NoCallYet(op.n + 1, 0) EXCEPT !.kind = "set", !.key = k]
    /\ ret' = NoReturn
    /\ UNCHANGED <<failed, asked, fixedVars, loanVars, threadVars>>
    /\ UNCHANGED <<strategy, isbn_cache, title_cache, heap, now, pc, tstate, tres,
                   order, doneAtWait, called, raising, sret, seen>>

\* SimpleCache.get(key): op.hit tells whether the entry was live, stale or
\* absent
CacheGetCall(k) ==
    /\ op.n < MaxCacheCalls
    /\ \E g \in {CacheGet(global_cache, k, now)} :
          /\ global_cache' = g.cache
          /\ ret' = IF g.hit THEN Returned(Contents(heap, g.data)) ELSE Miss
          /\ op' = [NoCallYet(op.n + 1, 0) EXCEPT
                       !.kind = "get", !.key = k,
                       !.hit = IF g.hit THEN "live"
                               ELSE IF k \in DOMAIN global_cache THEN "stale"
                               ELSE "absent"]
    /\ UNCHANGED <<failed, asked, fixedVars, loanVars, threadVars>>
    /\ UNCHANGED <<strategy, isbn_cache, title_cache, heap, now, pc, tstate, tres,
                   order, doneAtWait, called, raising, sret, seen>>

\* SimpleCache.clear(): every entry is dropped
CacheClearCall ==
    /\ op.n < MaxCacheCalls
    /\ global_cache' = EmptyDict
    /\ op' = [NoCallYet(op.n + 1, 0) EXCEPT !.kind = "clear"]
    /\ ret' = NoReturn
    /\ UNCHANGED <<failed, asked, fixedVars, loanVars, threadVars>>
    /\ UNCHANGED <<strategy, isbn_cache, title_cache, heap, now, pc, tstate, tres,
                   order, doneAtWait, called, raising, sret, seen>>

NextCache ==
    \/ \E k \in CacheKeys, l \in 1..Len(CacheHeap.lists) : CacheSetCall(k, l)
    \/ \E k \in CacheKeys : CacheGetCall(k)
    \/ CacheClearCall
    \/ Tick

SpecCache == InitCache /\ [][NextCache]_vars

\* the cache holds an entry for the key k that is within its TTL now
LiveEntry(k) ==
    k \in DOMAIN global_cache /\ now <= global_cache[k].created_at + TtlHours

\* C20: get(key) returns the stored results exactly when the cache holds an
\* entry for the key with now <= created_at + ttl, and then leaves the
\* cache as it is; otherwise it reports a miss, the entry of that key is
\* gone, and the entries of all other keys are as they were.
GetIsLazy ==
    [][(op'.kind = "get" /\ op'.n = op.n + 1) =>
          IF LiveEntry(op'.key)
          THEN /\ ret' = Returned(Contents(heap, global_cache[op'.key].data))
               /\ global_cache' = global_cache
          ELSE /\ ret' = Miss
               /\ DOMAIN global_cache' = DOMAIN global_cache \ {op'.key}
               /\ \A j \in DOMAIN global_cache' : global_cache'[j] = global_cache[j]]_vars

\* a get that removed the stale entry of its key and left the entry of
\* another key, itself stale
GetIsLazyWitness ==
    /\ op.kind = "get"
    /\ op.hit = "stale"
    /\ ret = Miss
    /\ op.key \notin DOMAIN global_cache
    /\ \E j \in DOMAIN global_cache : now > global_cache[j].created_at + TtlHours

\* ------------------------------------------------------------------------
\* The loans, the books and the members (libapp/services/loan_service.py,
\* book_service.py, member_service.py, import_service.py)
\* ------------------------------------------------------------------------

\* the number of rows of the table loans
MaxLoans == 3

\* the greatest copies_total of a book
MaxCopies == 2

\* the greatest id of a row of the table books, and of the table members
MaxBooks == 2
MaxMembers == 2

\* how many calls of the book service, of the member service and of the
\* imports a behaviour makes
MaxEdits == 2

\* how many rows an import reads
MaxRows == 2

\* the ids of the books and of the members, and an id that is in no table
BookIds == 1..MaxBooks
MemberIds == 1..MaxMembers
MissingId == 9

\* Book(copies_total=n, copies_available=n)
Book(n) == [copies_total |-> n, copies_available |-> n]

\* Member(member_no, is_active)
Member(member_no, is_active) == [member_no |-> member_no, is_active |-> is_active]

\* Loan(book_id, member_id, status=LoanStatus.open), not returned yet
Loan(book_id, member_id) ==
    [book_id |-> book_id, member_id |-> member_id,
     return_date |-> "None", status |-> "open"]

\* what a call of a service did: it returned, or raised LoanError,
\* ValueError or IntegrityError
LoanCall(call, arg, status) == [call |-> call, arg |-> arg, status |-> status]

\* the search service as it is constructed, no search being made
SearchUnused ==
    /\ failed = {}
    /\ asked = EmptyDict
    /\ threads = NoThreads
    /\ answers = NoAnswers
    /\ limits = Limits(MaxSearches, MaxFresh, MaxSubmits)
    /\ strategy = "sequential"
    /\ isbn_cache = EmptyDict
    /\ title_cache = EmptyDict
    /\ global_cache = EmptyDict
    /\ heap = EmptyHeap
    /\ now = 0
    /\ pc = "idle"
    /\ op = NoCallYet(0, 0)
    /\ tstate = NoTasks
    /\ tres = NoResults
    /\ order = <<>>
    /\ doneAtWait = {}
    /\ called = NoCall
    /\ raising = {}
    /\ sret = NoReturn
    /\ ret = NoReturn
    /\ seen = EmptyDict

\* the member numbers the rows of the table members hold, and those a
\* MemberDTO holds: blank, plain, padded
MemberNos == {<<"7">>, <<"8">>}
DtoMemberNos == {<<" ">>, <<"7">>, <<"8", " ">>}

\* a database seeded with a book, all its copies available, and a member,
\* active or not, and no loan
InitLoans ==
    /\ SearchUnused
    /\ copies \in [{1} -> {Book(n) : n \in 0..MaxCopies}]
    /\ members \in [{1} -> {Member(<<"7">>, a) : a \in BOOLEAN}]
    /\ loans = <<>>
    /\ lret = NoReturn

\* the id of a row added to a table whose rows have the ids in ids: the
\* column is an INTEGER PRIMARY KEY without AUTOINCREMENT
NewId(ids) == IF ids = {} THEN 1 ELSE (CHOOSE i \in ids : \A j \in ids : j <= i) + 1

\* session.add(row) and session.delete(row), committed
Added(table, row) == (NewId(DOMAIN table) :> row) @@ table
Deleted(table, id) == [i \in DOMAIN table \ {id} |-> table[i]]

\* the rules of create_loan: the book and the member exist, a copy is
\* available, the member is active
LoanRefused(book_id, member_id) ==
    \/ book_id \notin DOMAIN copies
    \/ member_id \notin DOMAIN members
    \/ copies[book_id].copies_available <= 0
    \/ ~members[member_id].is_active

\* create_loan(book_id, member_id)
create_loan(book_id, member_id) ==
    /\ IF LoanRefused(book_id, member_id)
       THEN /\ lret' = LoanCall("create_loan", <<book_id, member_id>>, "LoanError")
            /\ UNCHANGED <<copies, loans>>
       ELSE /\ Len(loans) < MaxLoans
            /\ loans' = Append(loans, Loan(book_id, member_id))
            /\ copies' = [copies EXCEPT ![book_id].copies_available = @ - 1]
            /\ lret' = LoanCall("create_loan", <<book_id, member_id>>, "ok")
    /\ UNCHANGED <<searchVars, fixedVars, threadVars, members>>

\* a return_loan that returns a loan however often it is called
NeverReturned(ln) == FALSE

\* the test "if ln.return_date" of return_loan
AlreadyReturned(ln) == ln.return_date # "None"

\* return_loan(loan_id); the book of the loan may have been deleted
return_loan(loan_id) ==
    /\ IF loan_id \notin DOMAIN loans
       THEN /\ lret' = LoanCall("return_loan", <<loan_id>>, "LoanError")
            /\ UNCHANGED <<copies, loans>>
       ELSE IF AlreadyReturned(loans[loan_id])
       THEN /\ lret' = LoanCall("return_loan", <<loan_id>>, "ok")
            /\ UNCHANGED <<copies, loans>>
       ELSE /\ loans' = [loans EXCEPT ![loan_id].return_date = "today",
                                      ![loan_id].status = "returned"]
            /\ copies' = IF loans[loan_id].book_id \in DOMAIN copies
                         THEN [copies EXCEPT
                                  ![loans[loan_id].book_id].copies_available = @ + 1]
                         ELSE copies
            /\ lret' = LoanCall("return_loan", <<loan_id>>, "ok")
    /\ UNCHANGED <<searchVars, fixedVars, threadVars, members>>

\* one more call of the book service, of the member service or of an import
Edit ==
    /\ op.n < MaxEdits
    /\ op' = [op EXCEPT !.n = @ + 1]
    /\ UNCHANGED <<strategy, isbn_cache, title_cache, global_cache, heap, now, pc,
                   tstate, tres, order, doneAtWait, called, raising, sret, ret, seen,
                   failed, asked, fixedVars, threadVars>>

\* BookService.create(dto) with dto.copies_total and dto.copies_available
BookService_create(total, available) ==
    /\ Edit
    /\ IF available > total
       THEN /\ lret' = LoanCall("BookService.create", <<>>, "ValueError")
            /\ UNCHANGED copies
       ELSE /\ NewId(DOMAIN copies) <= MaxBooks
            /\ copies' = Added(copies, [copies_total |-> total,
                                        copies_available |-> available])
            /\ lret' = LoanCall("BookService.create", <<NewId(DOMAIN copies)>>, "ok")
    /\ UNCHANGED <<loans, members>>

\* BookService.update(book_id, dto)
BookService_update(book_id, total, available) ==
    /\ Edit
    /\ IF book_id \notin DOMAIN copies \/ available > total
       THEN /\ lret' = LoanCall("BookService.update", <<book_id>>, "ValueError")
            /\ UNCHANGED copies
       ELSE /\ copies' = [copies EXCEPT ![book_id] = [copies_total |-> total,
                                                      copies_available |-> available]]
            /\ lret' = LoanCall("BookService.update", <<book_id>>, "ok")
    /\ UNCHANGED <<loans, members>>

\* BookService.delete(book_id): the loans of the book stay
BookService_delete(book_id) ==
    /\ Edit
    /\ copies' = IF book_id \in DOMAIN copies THEN Deleted(copies, book_id) ELSE copies
    /\ lret' = LoanCall("BookService.delete", <<book_id>>, "ok")
    /\ UNCHANGED <<loans, members>>

\* upsert_rows(rows) of the import of books, of rows that have no ISBN: each
\* is a new book, of one copy, available
RECURSIVE BooksAdded(_, _)
BooksAdded(table, n) ==
    IF n = 0 THEN table ELSE BooksAdded(Added(table, Book(1)), n - 1)

upsert_rows(n) ==
    /\ Edit
    /\ NewId(DOMAIN copies) + n - 1 <= MaxBooks
    /\ copies' = BooksAdded(copies, n)
    /\ lret' = LoanCall("upsert_rows", <<n, 0, 0>>, "ok")
    /\ UNCHANGED <<loans, members>>

\* the members whose number is member_no, but the member exclude_id
WithMemberNo(member_no, exclude_id) ==
    {m \in DOMAIN members \ {exclude_id} : members[m].member_no = member_no}

\* _ensure_unique_member_no raises ValueError
MemberNoRefused(member_no, exclude_id) ==
    \/ Strip(member_no) = <<>>
    \/ WithMemberNo(Strip(member_no), exclude_id) # {}

\* MemberService.create(dto) with dto.member_no and dto.is_active
MemberService_create(member_no, is_active) ==
    /\ Edit
    /\ IF MemberNoRefused(member_no, MissingId)
       THEN /\ lret' = LoanCall("MemberService.create", <<>>, "ValueError")
            /\ UNCHANGED members
       ELSE /\ NewId(DOMAIN members) <= MaxMembers
            /\ members' = Added(members, Member(Strip(member_no), is_active))
            /\ lret' = LoanCall("MemberService.create", <<NewId(DOMAIN members)>>, "ok")
    /\ UNCHANGED <<copies, loans>>

\* MemberService.update(member_id, dto)
MemberService_update(member_id, member_no, is_active) ==
    /\ Edit
    /\ IF member_id \notin DOMAIN members \/ MemberNoRefused(member_no, member_id)
       THEN /\ lret' = LoanCall("MemberService.update", <<member_id>>, "ValueError")
            /\ UNCHANGED members
       ELSE /\ members' = [members EXCEPT ![member_id] =
                                              Member(Strip(member_no), is_active)]
            /\ lret' = LoanCall("MemberService.update", <<member_id>>, "ok")
    /\ UNCHANGED <<copies, loans>>

\* list_open_by_member(member_id)
list_open_by_member(member_id) ==
    {i \in 1..Len(loans) : loans[i].member_id = member_id /\ loans[i].status = "open"}

\* MemberService.delete(member_id)
MemberService_delete(member_id) ==
    /\ Edit
    /\ IF member_id \notin DOMAIN members
       THEN /\ lret' = LoanCall("MemberService.delete", <<member_id>>, "ok")
            /\ UNCHANGED members
       ELSE IF list_open_by_member(member_id) # {}
       THEN /\ lret' = LoanCall("MemberService.delete", <<member_id>>, "ValueError")
            /\ UNCHANGED members
       ELSE /\ members' = Deleted(members, member_id)
            /\ lret' = LoanCall("MemberService.delete", <<member_id>>, "ok")
    /\ UNCHANGED <<copies, loans>>

\* the rows an import of members reads: MemberRow(member_no, is_active)
MemberRows ==
    UNION {[1..n -> {Member(no, a) : no \in MemberNos, a \in BOOLEAN}] : n \in 1..MaxRows}

\* what upsert_members has done after its first rows: the table, and how
\* many rows it inserted, updated and skipped
Imported(table, inserted, updated, skipped) ==
    [table |-> table, inserted |-> inserted, updated |-> updated, skipped |-> skipped]

\* the loop of upsert_members over the rows from the i-th on; the session
\* does not flush (autoflush=False), so that the select of a row finds the
\* members of the database and not those the earlier rows added
RECURSIVE UpsertLoop(_, _, _, _)
UpsertLoop(rows, i, on_conflict, done) ==
    IF i > Len(rows) THEN done
    ELSE LET existing == {m \in DOMAIN members :
                             members[m].member_no = rows[i].member_no}
         IN  IF existing = {}
             THEN UpsertLoop(rows, i + 1, on_conflict,
                             [done EXCEPT !.table = Added(@, rows[i]),
                                          !.inserted = @ + 1])
             ELSE IF on_conflict = "skip"
             THEN UpsertLoop(rows, i + 1, on_conflict, [done EXCEPT !.skipped = @ + 1])
             ELSE UpsertLoop(rows, i + 1, on_conflict,
                             [done EXCEPT
                                 !.table = [m \in DOMAIN @ |->
                                               IF m \in existing
                                               THEN [@[m] EXCEPT
                                                       !.is_active = rows[i].is_active]
                                               ELSE @[m]],
                                 !.updated = @ + 1])

\* the unique index of members.member_no accepts the table
UniqueMemberNos(table) ==
    \A m, n \in DOMAIN table : table[m].member_no = table[n].member_no => m = n

\* upsert_members(rows, on_conflict); session.commit() raises IntegrityError
\* when two rows added the same member number, and nothing is written
upsert_members(rows, on_conflict) ==
    /\ Edit
    /\ \E done \in {UpsertLoop(rows, 1, on_conflict, Imported(members, 0, 0, 0))} :
          IF ~UniqueMemberNos(done.table)
          THEN /\ lret' = LoanCall("upsert_members", <<>>, "IntegrityError")
               /\ UNCHANGED members
          ELSE /\ DOMAIN done.table \subseteq MemberIds
               /\ members' = done.table
               /\ lret' = LoanCall("upsert_members",
                                   <<done.inserted, done.updated, done.skipped>>, "ok")
    /\ UNCHANGED <<copies, loans>>

NextLoans ==
    \/ \E b \in BookIds \cup {MissingId}, m \in MemberIds \cup {MissingId} :
          create_loan(b, m)
    \/ \E id \in 1..(MaxLoans + 1) : return_loan(id)
    \/ \E total, available \in 0..MaxCopies : BookService_create(total, available)
    \/ \E b \in BookIds \cup {MissingId}, total, available \in 0..MaxCopies :
          BookService_update(b, total, available)
    \/ \E b \in BookIds \cup {MissingId} : BookService_delete(b)
    \/ \E n \in 1..MaxRows : upsert_rows(n)
    \/ \E no \in DtoMemberNos, a \in BOOLEAN : MemberService_create(no, a)
    \/ \E m \in MemberIds \cup {MissingId}, no \in DtoMemberNos, a \in BOOLEAN :
          MemberService_update(m, no, a)
    \/ \E m \in MemberIds \cup {MissingId} : MemberService_delete(m)
    \/ \E rows \in MemberRows, on_conflict \in {"skip", "update"} :
          upsert_members(rows, on_conflict)

SpecLoans == InitLoans /\ [][NextLoans]_vars

\* the open loans of the book b, and those of them of the member m
OpenLoans(b) ==
    {i \in 1..Len(loans) : loans[i].book_id = b /\ loans[i].return_date = "None"}
OpenLoansOf(b, m) == {i \in OpenLoans(b) : loans[i].member_id = m}

\* C13: a member never holds two open loans of the same book: create_loan
\* raises LoanError for a pair that has an open loan.
NoDoubleOpenLoan ==
    \A b \in BookIds, m \in MemberIds : Cardinality(OpenLoansOf(b, m)) <= 1

\* copies_available of the book b plus the number of its open loans
Held(b) == copies[b].copies_available + Cardinality(OpenLoans(b))

\* C14: a create_loan or a return_loan call leaves the copies available of
\* each book plus its open loans what they were before it, so that they stay
\* what they were at the start of any sequence of such calls; a create_loan
\* that succeeds adds one open loan and takes one copy of its book, the
\* first return_loan of a loan sets its return date and gives one copy back
\* to its book, and a repeated return_loan changes nothing.
CopiesConserved ==
    [][lret'.call \in {"create_loan", "return_loan"} =>
       /\ DOMAIN copies' = DOMAIN copies
       /\ \A b \in DOMAIN copies : Held(b)' = Held(b)
       /\ (lret'.call = "create_loan" /\ lret'.status = "ok") =>
             /\ loans' = Append(loans, Loan(lret'.arg[1], lret'.arg[2]))
             /\ copies' = [copies EXCEPT ![lret'.arg[1]].copies_available = @ - 1]
       /\ (lret'.call = "return_loan" /\ lret'.status = "ok") =>
             IF loans[lret'.arg[1]].return_date = "None"
             THEN /\ loans'[lret'.arg[1]].return_date # "None"
                  /\ \A i \in 1..Len(loans) :
                        i # lret'.arg[1] => loans'[i] = loans[i]
                  /\ \A b \in DOMAIN copies :
                        copies'[b] =
                           IF b = loans[lret'.arg[1]].book_id
                           THEN [copies[b] EXCEPT !.copies_available = @ + 1]
                           ELSE copies[b]
             ELSE UNCHANGED <<copies, loans>>]_vars

\* a loan returned twice, the second return being the last call, with all
\* the copies of its book available again
CopiesConservedWitness ==
    /\ lret = LoanCall("return_loan", <<1>>, "ok")
    /\ Len(loans) = MaxLoans
    /\ loans[1].return_date # "None"
    /\ loans[2].book_id = loans[1].book_id
    /\ loans[2].return_date # "None"
    /\ copies[loans[1].book_id].copies_available = copies[loans[1].book_id].copies_total
    /\ copies[loans[1].book_id].copies_total = MaxCopies

\* ------------------------------------------------------------------------
\* The parallel strategy asked twice for the same ISBN
\* ------------------------------------------------------------------------

\* the number of searches of a behaviour that asks again
MaxRetries == 2

\* the query asked again
RetryQuery == <<"isbn", <<" ", "1", "-">>, <<>>>>

InitRetry ==
    /\ failed = {}
    /\ asked = EmptyDict
    /\ threads = NoThreads
    /\ answers = NoAnswers
    /\ limits = Limits(MaxRetries, MaxRetries, MaxRetries)
    /\ EmptyDatabase
    /\ strategy = "parallel"
    /\ isbn_cache = EmptyDict
    /\ title_cache = EmptyDict
    /\ global_cache = EmptyDict
    /\ heap = EmptyHeap
    /\ now = 0
    /\ pc = "idle"
    /\ op = NoCallYet(0, 0)
    /\ tstate = NoTasks
    /\ tres = NoResults
    /\ order = <<>>
    /\ doneAtWait = {}
    /\ called = NoCall
    /\ raising = {}
    /\ sret = NoReturn
    /\ ret = NoReturn
    /\ seen = EmptyDict

NextRetry ==
    \/ \E u \in BOOLEAN : SearchCached(RetryQuery, u)
    \/ \E u \in BOOLEAN : SearchParallelHit(RetryQuery, u)
    \/ \E u \in BOOLEAN : SearchParallelSubmit(RetryQuery, u)
    \/ \E s \in SourceNames : TaskFinish(s)
    \/ WaitEnd
    \/ ParallelReturn
    \/ Resume
    \/ ClearCache
    \/ Tick

SpecRetry == InitRetry /\ [][NextRetry]_vars

\* the query of the call in progress was submitted to every source
SubmittedToAll == \A s \in SourceNames : called[s] # "no"

\* C15: a call that repeats a query whose last run lacked a source (its
\* adapter raised or its task timed out) submits the query to all the
\* sources again.
RetryIsFresh == (pc # "idle" /\ op.retry) => SubmittedToAll

\* a cache answers the search by ISBN under the facade key k and the
\* strategy's key g: the facade's dict when use_cache is set, or the global
\* cache with a non-empty list within its TTL
CacheAnswers(use_cache, k, g) ==
    \/ use_cache /\ k \in DOMAIN isbn_cache
    \/ /\ g \in DOMAIN global_cache
       /\ now <= global_cache[g].created_at + TtlHours
       /\ heap.lists[global_cache[g].data] # <<>>

\* C15, amended: a call that repeats a query whose last run lacked a source
\* and that no cache answers submits the query to all the sources again;
\* a call that a cache answers submits it to none.
RetryIsFreshUnlessCached ==
    [][(pc = "idle" /\ pc' # "idle" /\ op'.retry) =>
          IF CacheAnswers(op'.use_cache, op'.key, op'.gkey)
          THEN called' = NoCall /\ pc' = "returned"
          ELSE /\ pc' = "waiting"
               /\ \A s \in SourceNames : tstate'[s] = "running" /\ called'[s] = "running"]_vars

\* the query is submitted again, more than the TTL after a run that lacked
\* a source and left results in the caches
RetryWitness ==
    /\ pc = "waiting"
    /\ op.retry
    /\ op.use_cache
    /\ now > TtlHours
    /\ \A s \in SourceNames : tstate[s] = "running"

\* ------------------------------------------------------------------------
\* SimpleCache called by two threads
\* ------------------------------------------------------------------------

\* the number of calls of get and set each thread makes
MaxThreadCalls == 2

\* the threads that share _global_cache, and the key they all use
ThreadIds == {1, 2}
SharedKey == <<"k">>

\* a thread: pc is "idle" between two calls, "test" once get has read the
\* entry of the key, "del" once get has found that entry expired, and
\* "raised" when an exception left the call; entry is the entry get has
\* read, <<>> for None; n counts the calls and ret is what the last returned
Thread(pc_, entry, n, ret_) == [pc |-> pc_, entry |-> entry, n |-> n, ret |-> ret_]

\* the cache when the threads start: empty, or holding an entry stored at
\* hour 0, the clock being within the TTL of that entry or past it
InitThreads ==
    /\ failed = {}
    /\ asked = EmptyDict
    /\ answers = NoAnswers
    /\ limits = Limits(MaxSearches, MaxFresh, MaxSubmits)
    /\ EmptyDatabase
    /\ strategy = "parallel"
    /\ isbn_cache = EmptyDict
    /\ title_cache = EmptyDict
    /\ global_cache \in {EmptyDict, CacheSet(EmptyDict, SharedKey, 1, 0)}
    /\ heap = CacheHeap
    /\ now \in {0, TtlHours, TtlHours + 1}
    /\ pc = "idle"
    /\ op = NoCallYet(0, 0)
    /\ tstate = NoTasks
    /\ tres = NoResults
    /\ order = <<>>
    /\ doneAtWait = {}
    /\ called = NoCall
    /\ raising = {}
    /\ sret = NoReturn
    /\ ret = NoReturn
    /\ seen = EmptyDict
    /\ threads = [t \in ThreadIds |-> Thread("idle", <<>>, 0, NoReturn)]

\* what dict.get(key) returns: the entry as a one-element sequence, or <<>>
\* for None
DictGet(d, key) == IF key \in DOMAIN d THEN <<d[key]>> ELSE <<>>

\* SimpleCache.get, its first statement: entry = self._cache.get(key)
GetRead(t) ==
    /\ threads[t].pc = "idle"
    /\ threads[t].n < MaxThreadCalls
    /\ threads' = [threads EXCEPT ![t] =
                      Thread("test", DictGet(global_cache, SharedKey), @.n + 1, NoReturn)]
    /\ UNCHANGED <<searchVars, fixedVars, loanVars>>

\* SimpleCache.get, the test of the entry read: a live entry is returned,
\* an expired one is to be deleted, and None is a miss
GetTest(t) ==
    /\ threads[t].pc = "test"
    /\ threads' = [threads EXCEPT ![t] =
          IF @.entry = <<>> THEN Thread("idle", <<>>, @.n, Miss)
          ELSE IF ~is_expired(@.entry[1], now)
          THEN Thread("idle", <<>>, @.n, Returned(Contents(heap, @.entry[1].data)))
          ELSE Thread("del", @.entry, @.n, NoReturn)]
    /\ UNCHANGED <<searchVars, fixedVars, loanVars>>

\* SimpleCache.get, del self._cache[key]: the entry the key has now is
\* deleted, and KeyError is raised when the key has none
GetDel(t) ==
    /\ threads[t].pc = "del"
    /\ IF SharedKey \in DOMAIN global_cache
       THEN /\ global_cache' = DictDel(global_cache, SharedKey)
            /\ threads' = [threads EXCEPT ![t] = Thread("idle", <<>>, @.n, Miss)]
       ELSE /\ global_cache' = global_cache
            /\ threads' = [threads EXCEPT ![t] =
                              Thread("raised", <<>>, @.n,
                                     [status |-> "raised", val |-> <<>>])]
    /\ UNCHANGED <<strategy, isbn_cache, title_cache, heap, now, pc, op, tstate, tres,
                   order, doneAtWait, called, raising, sret, ret, seen, failed, asked>>
    /\ UNCHANGED <<fixedVars, loanVars>>

\* SimpleCache.set(key, data), data being the list at address l: the entry
\* is constructed and stored
ThreadSet(t, l) ==
    /\ threads[t].pc = "idle"
    /\ threads[t].n < MaxThreadCalls
    /\ global_cache' = CacheSet(global_cache, SharedKey, l, now)
    /\ threads' = [threads EXCEPT ![t] = Thread("idle", <<>>, @.n + 1, NoReturn)]
    /\ UNCHANGED <<strategy, isbn_cache, title_cache, heap, now, pc, op, tstate, tres,
                   order, doneAtWait, called, raising, sret, ret, seen, failed, asked>>
    /\ UNCHANGED <<fixedVars, loanVars>>

\* SimpleCache.clear() called by the thread t: every entry is dropped; op
\* tells from then on that the cache has been cleared
ThreadClear(t) ==
    /\ threads[t].pc = "idle"
    /\ threads[t].n < MaxThreadCalls
    /\ global_cache' = EmptyDict
    /\ threads' = [threads EXCEPT ![t] = Thread("idle", <<>>, @.n + 1, NoReturn)]
    /\ op' = [op EXCEPT !.kind = "clear"]
    /\ UNCHANGED <<strategy, isbn_cache, title_cache, heap, now, pc, tstate, tres,
                   order, doneAtWait, called, raising, sret, ret, seen, failed, asked>>
    /\ UNCHANGED <<fixedVars, loanVars>>

NextThreads ==
    \/ \E t \in ThreadIds : GetRead(t)
    \/ \E t \in ThreadIds : GetTest(t)
    \/ \E t \in ThreadIds : GetDel(t)
    \/ \E t \in ThreadIds, l \in 1..Len(CacheHeap.lists) : ThreadSet(t, l)
    \/ \E t \in ThreadIds : ThreadClear(t)

SpecThreads == InitThreads /\ [][NextThreads]_vars

\* no thread has called clear()
NeverCleared == op.kind # "clear"

\* no call of a thread has raised
NoThreadRaised == \A t \in ThreadIds : threads[t].pc # "raised"

\* the entry of the shared key is within its TTL
SharedIsLive ==
    SharedKey \in DOMAIN global_cache /\ ~is_expired(global_cache[SharedKey], now)

\* C21: whatever the interleaving of the get and set calls of two threads
\* on one key, no call raises, and no get removes an entry that is within
\* its TTL: an entry freshly written by set stays although a get had read
\* the expired entry it replaces.
CacheSafeUnderThreads ==
    /\ [](NeverCleared => NoThreadRaised)
    /\ [][(NeverCleared' /\ SharedIsLive) => SharedKey \in DOMAIN global_cache']_vars

\* ------------------------------------------------------------------------
\* One source answering a batch of records, well-formed or not
\* ------------------------------------------------------------------------

\* the number of records of a batch
MaxBatch == 3

\* a None among the records: every conversion of it raises AttributeError
NoRecord == Raw("None", <<>>, <<>>)

\* records whose title is empty
BnfUntitled == Raw("BnfBook", <<>>, <<AuthorAB>>)
ExtUntitled == Raw("ExtBook", <<>>, <<AuthorAB>>)
DictUntitled == Raw("dict", <<>>, <<AuthorAB>>)

\* the records a batch of the source s is made of
BatchRecords(s) ==
    CASE s = "BnF" -> {BnfX, BnfP, NoRecord, BnfUntitled}
      [] s = "OpenLibrary" -> {ExtX, NoRecord, ExtUntitled}
      [] s = "Google Books" -> {DictX, DictNoAuthors, NoRecord, DictUntitled}

\* the batches of the source s
Batches(s) == UNION {[1..n -> BatchRecords(s)] : n \in 1..MaxBatch}

\* the sources that answer a search of the kind with a list of records in
\* both strategies
BatchSources(kind) == IF kind = "isbn" THEN {"BnF"} ELSE SourceNames

\* the source s answers the batch b and the other sources an empty list
BatchOuts(s, b) ==
    [t \in SourceNames |->
        IF t = s THEN Outcome("list", b, 1) ELSE Outcome("empty", <<>>, 1)]
BatchAnswers(kind) ==
    UNION {{BatchOuts(s, b) : b \in Batches(s)} : s \in BatchSources(kind)}

\* the searches made on the batches
BatchQueries == {<<"isbn", <<"1">>, <<>>>>, <<"title", <<"A">>, <<"B">>>>}

InitBatch ==
    /\ failed = {}
    /\ asked = EmptyDict
    /\ threads = NoThreads
    /\ limits = Limits(MaxSearches, MaxFresh, MaxSubmits)
    /\ EmptyDatabase
    /\ strategy \in {"sequential", "parallel"}
    /\ isbn_cache = EmptyDict
    /\ title_cache = EmptyDict
    /\ global_cache = EmptyDict
    /\ heap = EmptyHeap
    /\ now = 0
    /\ pc = "idle"
    /\ \E kind \in {"isbn", "title"} :
          /\ op = [NoCallYet(0, 0) EXCEPT !.kind = kind]
          /\ answers \in BatchAnswers(kind)
    /\ tstate = NoTasks
    /\ tres = NoResults
    /\ order = <<>>
    /\ doneAtWait = {}
    /\ called = NoCall
    /\ raising = {}
    /\ sret = NoReturn
    /\ ret = NoReturn
    /\ seen = EmptyDict

\* a worker thread ends _search_single_source for the source s, its adapter
\* having answered answers[s]
BatchTask(s) == TaskEnds(s, {TaskRun(s, TaskMethod(op.kind, s), answers[s])})

\* the search of the kind of the batch, by the strategy set
BatchSequential == strategy = "sequential" /\ SeqSearchRun
BatchSubmit(q) == q[1] = op.kind /\ SearchParallelSubmit(q, FALSE)

NextBatch ==
    \/ BatchSequential
    \/ \E q \in BatchQueries : BatchSubmit(q)
    \/ \E s \in SourceNames : BatchTask(s)
    \/ WaitEnd
    \/ ParallelReturn

SpecBatch == InitBatch /\ [][NextBatch]_vars

\* what the try block of the source s leaves of the answer out, in the
\* strategy that runs
BlockOf(s, out) ==
    IF strategy = "sequential" THEN SeqBlock(op.kind, s, out)
    ELSE SingleSourceBlock(s, TaskMethod(op.kind, s), out)

\* what the source s gives when the record rec is all its adapter answers:
\* its one result, or nothing when shaping it fails
Alone(s, rec) == BlockOf(s, Outcome("list", <<rec>>, answers[s].rt)).items

\* the results the search returned
SearchResults == IF strategy = "sequential" THEN sret.val ELSE ret.val

\* the source s was asked and, in the parallel strategy, its task had
\* finished when wait() returned
Contributes(s) ==
    IF strategy = "sequential" THEN \E i \in 1..Len(order) : order[i] = s
    ELSE s \in doneAtWait

\* C22: when the search has returned, every record of the batch of a source
\* that can be shaped is among the results, whatever records before or
\* after it in the batch cannot.
BatchKeepsWellFormed ==
    pc = "returned" =>
        \A s \in SourceNames :
            Contributes(s) =>
                \A i \in 1..Len(answers[s].recs) :
                    Alone(s, answers[s].recs[i]) # <<>> =>
                        \E k \in 1..Len(SearchResults) :
                            SearchResults[k] = Alone(s, answers[s].recs[i])[1]

\* C23: every result a search returns has a non-empty title.
TitleNeverEmpty ==
    pc = "returned" =>
        \A k \in 1..Len(SearchResults) : SearchResults[k].title # <<>>

\* ------------------------------------------------------------------------
\* The construction of one UnifiedBookResult
\* ------------------------------------------------------------------------

\* the fields the score counts, and the points of each, in tenths
ScoredFields ==
    {"authors", "main_author", "isbn", "year", "publisher", "description",
     "summary", "thumbnail_url"}
FieldPoints ==
    [authors |-> 80, main_author |-> 50, isbn |-> 80, year |-> 50,
     publisher |-> 40, description |-> 60, summary |-> 40, thumbnail_url |-> 30]

\* the confidences of a SearchSourceInfo, in hundredths: those the
\* strategies use, the ends of the range 0.0 - 1.0, and two outside it
Confidences == {-500, 0, 65, 95, 100, 800}

\* the response times, in tenths of a second
ResponseTimes == {1, SlowResponse, SlowResponse + 1}

\* the arguments of the constructor: the fields of the set F are given a
\* value and the others are None
Fields(src, conf, rt, F) ==
    [f \in DOMAIN Blank(<<"X">>, src, conf, rt) |->
        IF f \in F THEN (IF f = "authors" THEN <<AuthorAB>> ELSE <<"v">>)
        ELSE Blank(<<"X">>, src, conf, rt)[f]]

InitScore ==
    /\ failed = {}
    /\ asked = EmptyDict
    /\ threads = NoThreads
    /\ answers = NoAnswers
    /\ limits = Limits(MaxSearches, MaxFresh, MaxSubmits)
    /\ EmptyDatabase
    /\ strategy = "sequential"
    /\ isbn_cache = EmptyDict
    /\ title_cache = EmptyDict
    /\ global_cache = EmptyDict
    /\ \E src \in SourceNames, conf \in Confidences, rt \in ResponseTimes,
          F \in SUBSET ScoredFields :
          heap = AllocResults(EmptyHeap, <<Fields(src, conf, rt, F)>>)
    /\ now = 0
    /\ pc = "idle"
    /\ op = NoCallYet(0, 0)
    /\ tstate = NoTasks
    /\ tres = NoResults
    /\ order = <<>>
    /\ doneAtWait = {}
    /\ called = NoCall
    /\ raising = {}
    /\ sret = NoReturn
    /\ ret = NoReturn
    /\ seen = EmptyDict

\* UnifiedBookResult(...): __post_init__ stores the score of the object
\* whose fields the constructor has set
Construct ==
    /\ pc = "idle"
    /\ pc' = "returned"
    /\ heap' = [heap EXCEPT !.objs[1] = UnifiedBookResult(@)]
    /\ UNCHANGED <<failed, asked, fixedVars, loanVars, threadVars>>
    /\ UNCHANGED <<strategy, isbn_cache, title_cache, global_cache, now, op, tstate,
                   tres, order, doneAtWait, called, raising, sret, ret, seen>>

NextScore ==
    \/ Construct

SpecScore == InitScore /\ [][NextScore]_vars

RECURSIVE SumPoints(_)
\* the points of the fields of the set F
SumPoints(F) ==
    IF F = {} THEN 0
    ELSE LET f == CHOOSE x \in F : TRUE IN FieldPoints[f] + SumPoints(F \ {f})

\* the points of the claim for the result r, title bonus apart: trust * 30,
\* the points of its non-empty fields, the latency penalty and
\* confidence * 10, in tenths
ClaimedPoints(r) ==
    (IF r.src = "BnF" THEN 300 ELSE IF r.src = "Google Books" THEN 240 ELSE 180)
    + SumPoints({f \in ScoredFields : r[f] # <<>>})
    - (IF r.rt > 50 THEN 50 ELSE 0)
    + r.conf

\* x clamped to [0, 100], in tenths
Clamped(x) == IF x < 0 THEN 0 ELSE IF x > 1000 THEN 1000 ELSE x

\* C25: the score computed at construction is the trust of the source
\* times 30, plus the points of the non-empty fields, minus 5 for a
\* response time above 5.0, plus confidence times 10, clamped to [0, 100].
ScoreAsClaimed ==
    pc = "returned" => heap.objs[1].score = Clamped(ClaimedPoints(heap.objs[1]))

\* C25, amended: the score is the sum of the claim plus the 10 points the
\* code grants for the title whatever it holds, clamped to [0, 100].
ScoreWithTitleBonus ==
    pc = "returned" =>
        heap.objs[1].score = Clamped(ClaimedPoints(heap.objs[1]) + 100)

\* a result of every field, of a slow source, has been constructed with a
\* score below 100
ScoreWitness ==
    /\ pc = "returned"
    /\ \A f \in ScoredFields : heap.objs[1][f] # <<>>
    /\ heap.objs[1].rt > SlowResponse
    /\ heap.objs[1].score = 240 + 100 + 430 - 50 + 95

\* ------------------------------------------------------------------------
\* Title searches whose titles and authors hold the separator of the key
\* ------------------------------------------------------------------------

\* the title searches a caller makes: two whose pairs differ and whose
\* keys are both "a:b:c", and one of another key
KeyQueries ==
    {<<"title", <<"a", ":", "b">>, <<"c">>>>,
     <<"title", <<"a">>, <<"b", ":", "c">>>>,
     <<"title", <<"a">>, <<"c">>>>}

\* a fresh facade of any strategy that runs two searches, the first one
\* reaching the adapters
InitKeys ==
    /\ failed = {}
    /\ asked = EmptyDict
    /\ threads = NoThreads
    /\ answers = NoAnswers
    /\ limits = Limits(2, 1, 1)
    /\ EmptyDatabase
    /\ strategy \in Strategies
    /\ isbn_cache = EmptyDict
    /\ title_cache = EmptyDict
    /\ global_cache = EmptyDict
    /\ heap = EmptyHeap
    /\ now = 0
    /\ pc = "idle"
    /\ op = NoCallYet(0, 0)
    /\ tstate = NoTasks
    /\ tres = NoResults
    /\ order = <<>>
    /\ doneAtWait = {}
    /\ called = NoCall
    /\ raising = {}
    /\ sret = NoReturn
    /\ ret = NoReturn
    /\ seen = EmptyDict

NextKeys ==
    \/ \E q \in KeyQueries, u \in BOOLEAN : SearchCached(q, u)
    \/ \E q \in KeyQueries, u \in BOOLEAN : SearchSequential(q, u)
    \/ \E q \in KeyQueries, u \in BOOLEAN : SearchParallelHit(q, u)
    \/ \E q \in KeyQueries, u \in BOOLEAN : SearchParallelSubmit(q, u)
    \/ \E s \in SourceNames : TaskFinish(s)
    \/ WaitEnd
    \/ ParallelReturn
    \/ Resume

SpecKeys == InitKeys /\ [][NextKeys]_vars

\* the keys of both caches tell the searches of different pairs apart
KeysInjective ==
    \A q1, q2 \in KeyQueries :
        NormPair(q1) # NormPair(q2) =>
            /\ FacadeKey(q1) # FacadeKey(q2)
            /\ GlobalKey(q1) # GlobalKey(q2)

\* C29: two title searches whose normalized (title, author) pairs differ
\* have different cache keys, and a title search that the facade's cache
\* answers is answered with the results stored by a search for its own
\* pair.
PairsNeverShareAnEntry ==
    /\ []KeysInjective
    /\ [][(pc = "idle" /\ pc' = "returned" /\ op'.kind = "title"
              /\ op'.hit = "facade")
            => asked[<<"title", op'.key>>].pair = op'.pair]_vars

====
